---- MODULE Spec2Model ----
(***************************************************************************)
(* Quota engine of the media-generation backend                            *)
(* (backend/utils/quota_manager.py, backend/routers/quotas.py and the      *)
(* generation routers that call it).                                       *)
(*                                                                         *)
(* Python's Optional values are sequences of length at most one: None is   *)
(* <<>> and a present value v is <<v>>.  A JSON object (a Python dict) is  *)
(* a function whose DOMAIN is the set of keys present.  Time is counted in *)
(* whole days (day 0 is a Monday): every reset time the code computes is a *)
(* midnight, so a day is the unit in which "now >= reset time" changes.    *)
(***************************************************************************)
EXTENDS Integers, Sequences, FiniteSets, TLC

VARIABLES
    user_quotas,   \* table user_quotas: for each <<user_id, generation_type>> its
                   \* rows, oldest first (no constraint makes the pair unique)
    user_admins,   \* table user_admins: pairs <<admin_id, user_id>>
    now,           \* datetime.utcnow(), in days
    last,          \* the last completed call and what it returned
    calls,         \* for each <<user_id, generation_type>>: the increment_quota
                   \* calls made on its quota since it was a limited quota with
                   \* quota_used = 0 and left as configured (None: it was not)
    pc,            \* for each request handler: the step it is at
    req,           \* for each request handler: the request it is serving
    video_jobs,    \* table video_jobs: for each operation name its job row
    operations,    \* the provider's long-running video operations
    charges,       \* for each <<user_id, generation_type>>: the increment_quota
                   \* calls that have run their UPDATE
    peak,          \* for each <<user_id, generation_type>>: the most generation
                   \* requests that were in flight together
    users,         \* table users: for each user id its row, when it has one
    user_tags,     \* table user_tags: for each user id its set of tags
    media,         \* table media: for each media id its row, when it has one
    files,         \* the storage directories: for each path the bytes of the
                   \* file there, when there is one
    thumbnails,    \* the thumbnail cache: the media ids that have a file in it
    queue,         \* table video_jobs as VideoQueue keeps it: its rows with
                   \* their three ids, in rowid order
    user_sessions, \* table user_sessions: its rows, in rowid order
    issued,        \* the number of tokens secrets.token_urlsafe has returned;
                   \* the n-th of them is the token n
    schema,        \* the database file and the module state of utils/database:
                   \* the rows of schema_migrations, the migrations run on
                   \* the file in the order they ran, _db_initialized, the
                   \* holder of _db_lock and where each thread is in
                   \* initialize_database
    limiter        \* utils/rate_limiter: _rate_limits, the timestamps kept
                   \* for each <<user_id, resource_type>>, and accepted, the
                   \* times of all the requests check_rate_limit let pass

genVars == <<pc, req, video_jobs, operations, charges, peak>>
storeVars == <<users, user_tags, media, files, thumbnails>>
trackVars == <<queue, user_sessions, issued, schema, limiter>>
vars == <<user_quotas, user_admins, now, last, calls,
          pc, req, video_jobs, operations, charges, peak,
          users, user_tags, media, files, thumbnails, queue, user_sessions,
          issued, schema, limiter>>

----------------------------------------------------------------------------
(* Bounds of the model *)

MaxLimit == 1      \* admins supply limits in -1 .. MaxLimit
MaxUsed == 2       \* no increment is started on a row with quota_used = MaxUsed
MaxCharged == 3    \* no request is started for a quota charged MaxCharged times
MaxStored == 2     \* the media items stored for a job are counted up to MaxStored

----------------------------------------------------------------------------
(* Optional values and dicts *)

None == <<>>
Some(x) == <<x>>
IsNone(o) == o = <<>>
Val(o) == o[1]

\* dict.get(key, default)
DictGet(d, key, default) == IF key \in DOMAIN d THEN d[key] ELSE default

----------------------------------------------------------------------------
(* Identities *)

Users == {"u1", "u2"}
Admins == {"a1"}

\* Request handlers that run concurrently
Procs == {"p1", "p2"}
\* Names the provider gives its video operations
JobIds == {"op1"}

\* generation_type values the user_quotas table accepts (CHECK constraint)
ValidGenerationTypes == {"image", "video", "text"}
\* quota_type values the user_quotas table accepts (CHECK constraint)
ValidQuotaTypes == {"daily", "weekly", "limited", "unlimited"}

\* generation types the generation routers pass to check_quota/increment_quota
Categories == {"video", "text", "speech"}

----------------------------------------------------------------------------
(* QuotaManager *)

DefaultImageLimit == 50
DefaultVideoLimit == 10
DefaultEditLimit == 30

DEFAULT_QUOTAS ==
    [image |-> [type |-> "daily", limit |-> Some(DefaultImageLimit)],
     video |-> [type |-> "daily", limit |-> Some(DefaultVideoLimit)],
     edit  |-> [type |-> "daily", limit |-> Some(DefaultEditLimit)]]

\* _calculate_reset_time without the timedelta of the daily reset: midnight
\* of the current day
_calculate_reset_time_same_day(quota_type, t) ==
    IF quota_type = Some("daily") THEN Some(t)
    ELSE IF quota_type = Some("weekly") THEN
        LET days_until_monday == (7 - (t % 7)) % 7
        IN  Some(t + (IF days_until_monday = 0 THEN 7 ELSE days_until_monday))
    ELSE None

\* quota_type is Optional[str]; the result is Optional[day]
_calculate_reset_time(quota_type, t) ==
    IF quota_type = Some("daily") THEN Some(t + 1)
    ELSE IF quota_type = Some("weekly") THEN
        LET days_until_monday == (7 - (t % 7)) % 7
        IN  Some(t + (IF days_until_monday = 0 THEN 7 ELSE days_until_monday))
    ELSE None

\* SELECT * FROM user_quotas WHERE user_id = ? AND generation_type = ?, first
\* row (the oldest): Optional[Quota]
get_quota(uq, user_id, generation_type) ==
    IF <<user_id, generation_type>> \in DOMAIN uq
       /\ uq[<<user_id, generation_type>>] # <<>>
    THEN Some(Head(uq[<<user_id, generation_type>>]))
    ELSE None

\* The INSERT of create_quota passes the table's constraints
InsertAccepted(generation_type, quota_type) ==
    /\ generation_type \in ValidGenerationTypes
    /\ ~IsNone(quota_type)
    /\ Val(quota_type) \in ValidQuotaTypes

\* create_quota: [ok, table]; ok = FALSE is sqlite3.IntegrityError
create_quota(uq, user_id, generation_type, quota_type, quota_limit, t) ==
    IF InsertAccepted(generation_type, quota_type)
    THEN LET key == <<user_id, generation_type>>
         IN  [ok |-> TRUE,
              table |-> [uq EXCEPT ![key] =
                  Append(@, [id |-> <<user_id, generation_type, Len(@) + 1>>,
                             user_id |-> user_id,
                             generation_type |-> generation_type,
                             quota_type |-> Val(quota_type),
                             quota_limit |-> quota_limit,
                             quota_used |-> 0,
                             quota_reset_at |-> _calculate_reset_time(quota_type, t)])]]
    ELSE [ok |-> FALSE, table |-> uq]

\* _reset_quota that moves the reset time but leaves quota_used as it is
_reset_quota_keeps_used(uq, quota_id, t) ==
    LET key == <<quota_id[1], quota_id[2]>>
        n == quota_id[3]
    IN  IF key \notin DOMAIN uq \/ n > Len(uq[key]) THEN uq
        ELSE [uq EXCEPT ![key][n].quota_reset_at =
                            _calculate_reset_time(Some(uq[key][n].quota_type), t)]

\* _reset_quota whose UPDATE selects by the row's user_id instead of its id
_reset_quota_user_wide(uq, quota_id, t) ==
    [k \in DOMAIN uq |->
        IF k[1] = quota_id[1]
        THEN [n \in 1..Len(uq[k]) |->
                 [uq[k][n] EXCEPT !.quota_used = 0,
                                  !.quota_reset_at =
                                      _calculate_reset_time(Some(uq[k][n].quota_type), t)]]
        ELSE uq[k]]

\* UPDATE user_quotas SET quota_used = 0, quota_reset_at = ? WHERE id = ?
_reset_quota(uq, quota_id, t) ==
    LET key == <<quota_id[1], quota_id[2]>>
        n == quota_id[3]
    IN  IF key \notin DOMAIN uq \/ n > Len(uq[key]) THEN uq
        ELSE [uq EXCEPT ![key][n].quota_used = 0,
                        ![key][n].quota_reset_at =
                            _calculate_reset_time(Some(uq[key][n].quota_type), t)]

\* The message of a denied check: "Quota exceeded for {generation_type}.
\* Used: {quota_used}/{quota_limit}.{reset_info}"
QuotaExceededMessage(q) ==
    [text |-> "Quota exceeded",
     generation_type |-> q.generation_type,
     used |-> q.quota_used,
     limit |-> Val(q.quota_limit),
     resets_at |-> q.quota_reset_at]

\* CheckDecision that denies only above the limit (> for >=)
CheckDecision_strict(q) ==
    IF IsNone(q.quota_limit) THEN [allowed |-> TRUE, message |-> None]
    ELSE IF q.quota_used > Val(q.quota_limit)
         THEN [allowed |-> FALSE, message |-> Some(QuotaExceededMessage(q))]
         ELSE [allowed |-> TRUE, message |-> None]

\* CheckDecision that tests "not quota.quota_limit" for "quota_limit is None"
CheckDecision_falsy(q) ==
    IF IsNone(q.quota_limit) \/ q.quota_limit = Some(0)
    THEN [allowed |-> TRUE, message |-> None]
    ELSE IF q.quota_used >= Val(q.quota_limit)
         THEN [allowed |-> FALSE, message |-> Some(QuotaExceededMessage(q))]
         ELSE [allowed |-> TRUE, message |-> None]

\* The decision of check_quota on the row it ends up reading
CheckDecision(q) ==
    IF IsNone(q.quota_limit) THEN [allowed |-> TRUE, message |-> None]
    ELSE IF q.quota_used >= Val(q.quota_limit)
         THEN [allowed |-> FALSE, message |-> Some(QuotaExceededMessage(q))]
         ELSE [allowed |-> TRUE, message |-> None]

\* check_quota: [allowed, message, table]; table differs from uq when the
\* check reset a row whose reset time has passed
check_quota(uq, user_id, generation_type, t) ==
    LET quota == get_quota(uq, user_id, generation_type)
    IN  IF IsNone(quota) THEN [allowed |-> TRUE, message |-> None, table |-> uq]
        ELSE IF Val(quota).quota_type = "unlimited"
             THEN [allowed |-> TRUE, message |-> None, table |-> uq]
        ELSE LET due == /\ ~IsNone(Val(quota).quota_reset_at)
                        /\ t >= Val(Val(quota).quota_reset_at)
                 uq2 == IF due THEN _reset_quota(uq, Val(quota).id, t) ELSE uq
                 d   == CheckDecision(Val(get_quota(uq2, user_id, generation_type)))
             IN  [allowed |-> d.allowed, message |-> d.message, table |-> uq2]

\* The UPDATE with "WHERE user_id = ?": it counts on every row of the user
sql_increment_used_user_wide(uq, quota) ==
    [k \in DOMAIN uq |->
        IF k[1] = quota.id[1]
        THEN [n \in 1..Len(uq[k]) |-> [uq[k][n] EXCEPT !.quota_used = @ + 1]]
        ELSE uq[k]]

\* UPDATE user_quotas SET quota_used = quota_used + 1 WHERE id = quota.id
sql_increment_used(uq, quota) ==
    LET key == <<quota.id[1], quota.id[2]>>
        n == quota.id[3]
    IN  [uq EXCEPT ![key][n].quota_used = @ + 1]

\* The default increment_quota creates a missing row with
DefaultFor(generation_type) ==
    IF generation_type \in DOMAIN DEFAULT_QUOTAS
    THEN [type |-> Some(DEFAULT_QUOTAS[generation_type].type),
          limit |-> DEFAULT_QUOTAS[generation_type].limit]
    ELSE [type |-> Some("unlimited"), limit |-> None]

\* increment_quota that stops counting once quota_used has reached the limit
increment_quota_capped(uq, user_id, generation_type, t) ==
    LET found == get_quota(uq, user_id, generation_type)
        created == IF IsNone(found)
                   THEN create_quota(uq, user_id, generation_type,
                                     DefaultFor(generation_type).type,
                                     DefaultFor(generation_type).limit, t)
                   ELSE [ok |-> TRUE, table |-> uq]
        quota == get_quota(created.table, user_id, generation_type)
    IN  IF ~created.ok THEN [ok |-> FALSE, table |-> uq]
        ELSE IF ~IsNone(quota) /\ Val(quota).quota_type # "unlimited"
                /\ CheckDecision(Val(quota)).allowed
             THEN [ok |-> TRUE, table |-> sql_increment_used(created.table, Val(quota))]
             ELSE [ok |-> TRUE, table |-> created.table]

\* increment_quota: [ok, table]; ok = FALSE is the IntegrityError of the
\* create_quota it calls for a missing row
increment_quota(uq, user_id, generation_type, t) ==
    LET found == get_quota(uq, user_id, generation_type)
        created == IF IsNone(found)
                   THEN create_quota(uq, user_id, generation_type,
                                     DefaultFor(generation_type).type,
                                     DefaultFor(generation_type).limit, t)
                   ELSE [ok |-> TRUE, table |-> uq]
        quota == get_quota(created.table, user_id, generation_type)
    IN  IF ~created.ok THEN [ok |-> FALSE, table |-> uq]
        ELSE IF ~IsNone(quota) /\ Val(quota).quota_type # "unlimited"
             THEN [ok |-> TRUE, table |-> sql_increment_used(created.table, Val(quota))]
             ELSE [ok |-> TRUE, table |-> created.table]

\* The UPDATE of update_quota passes the table's constraints
UpdateAccepted(quota_type) ==
    IsNone(quota_type) \/ Val(quota_type) \in ValidQuotaTypes

\* update_quota: [ok, table]; ok = FALSE is sqlite3.IntegrityError
update_quota(uq, user_id, generation_type, quota_type, quota_limit, t) ==
    LET quota == get_quota(uq, user_id, generation_type)
        key == <<user_id, generation_type>>
    IN  IF IsNone(quota)
        THEN IF ~IsNone(quota_type) /\ ~IsNone(quota_limit)
             THEN create_quota(uq, user_id, generation_type, quota_type, quota_limit, t)
             ELSE [ok |-> TRUE, table |-> uq]
        ELSE IF IsNone(quota_type) /\ IsNone(quota_limit)
             THEN [ok |-> TRUE, table |-> uq]
        ELSE IF ~UpdateAccepted(quota_type)
             THEN [ok |-> FALSE, table |-> uq]
        ELSE [ok |-> TRUE,
              table |-> [uq EXCEPT
                  ![key][1].quota_type = IF IsNone(quota_type) THEN @ ELSE Val(quota_type),
                  ![key][1].quota_reset_at = IF IsNone(quota_type) THEN @
                                             ELSE _calculate_reset_time(quota_type, t),
                  ![key][1].quota_limit = IF IsNone(quota_limit) THEN @ ELSE quota_limit]]

\* reset_user_quota(user_id, generation_type)
reset_user_quota(uq, user_id, generation_type, t) ==
    LET quota == get_quota(uq, user_id, generation_type)
    IN  IF IsNone(quota) THEN uq ELSE _reset_quota(uq, Val(quota).id, t)

\* quota (Optional[Quota]) is missing or has quota_used < bound
quota_used_below(quota, bound) ==
    IF IsNone(quota) THEN TRUE ELSE Val(quota).quota_used < bound

----------------------------------------------------------------------------
(* UserManager *)

\* The check without "admin_id = ?": the user has some managing admin
can_admin_manage_user_any_admin(ua, admin_id, user_id) ==
    \E pair \in ua : pair[2] = user_id

can_admin_manage_user(ua, admin_id, user_id) == <<admin_id, user_id>> \in ua

----------------------------------------------------------------------------
(* routers/quotas.py *)

\* generation types the quota endpoints act on; any other key is skipped
RouterGenerationTypes == {"image", "video", "text"}

\* quota_limit of a row update_user_quotas creates when the request has no "limit"
CreateDefaultLimit == 100

\* PUT /api/admin/quotas/{user_id} with request.quotas = {gen_type: settings}:
\* [status, table]
update_user_quotas(uq, ua, admin_id, user_id, gen_type, settings, t) ==
    IF ~can_admin_manage_user(ua, admin_id, user_id)
    THEN [status |-> 403, table |-> uq]
    ELSE IF gen_type \notin RouterGenerationTypes
    THEN [status |-> 200, table |-> uq]
    ELSE LET r == IF IsNone(get_quota(uq, user_id, gen_type))
                  THEN create_quota(uq, user_id, gen_type,
                                    DictGet(settings, "type", Some("limited")),
                                    DictGet(settings, "limit", Some(CreateDefaultLimit)), t)
                  ELSE update_quota(uq, user_id, gen_type,
                                    DictGet(settings, "type", None),
                                    DictGet(settings, "limit", None), t)
         IN  [status |-> IF r.ok THEN 200 ELSE 500, table |-> r.table]

\* POST /api/admin/quotas/{user_id}/reset?generation_type=...: [status, table]
reset_user_quotas(uq, ua, admin_id, user_id, generation_type, t) ==
    IF ~can_admin_manage_user(ua, admin_id, user_id)
    THEN [status |-> 403, table |-> uq]
    ELSE IF generation_type \notin RouterGenerationTypes
    THEN [status |-> 400, table |-> uq]
    ELSE [status |-> 200, table |-> reset_user_quota(uq, user_id, generation_type, t)]

----------------------------------------------------------------------------
(* UserManager *)

\* Admin accounts, and every account id (uuid4 values)
Managers == {"a1", "a2"}
UserIds == Users \cup Managers

\* email.lower().strip() on the emails requests carry
Normalise(email) ==
    CASE email = " U2@X " -> "u2@x"
      [] email = "U1@x" -> "u1@x"
      [] OTHER -> email

\* The passwords requests and the environment carry
InitialPassword == "Passw0rd1"
Passwords == {"Passw0rd1", "Secret22x", "short1A"}

\* hash_password: a bcrypt hash of the password
hash_password(password) == <<"bcrypt", password>>

\* verify_password(password, password_hash)
verify_password(password, password_hash) ==
    password_hash[1] = "bcrypt" /\ password_hash[2] = password

\* validate_password: at least 8 characters, with an uppercase letter, a
\* lowercase letter and a digit
validate_password(password) == password \in {"Passw0rd1", "Secret22x"}

\* INSERT INTO users of create_user: the row of a new user, password being
\* None or the password given
NewUserRow(email, password, is_admin, is_active) ==
    [email |-> Normalise(email),
     password_hash |-> IF IsNone(password) THEN None
                       ELSE Some(hash_password(Val(password))),
     is_active |-> is_active, is_admin |-> is_admin,
     require_password_reset |-> IsNone(password)]

\* get_user_by_id: Optional[User]
get_user_by_id(us, user_id) ==
    IF user_id \in DOMAIN us THEN us[user_id] ELSE None

\* get_user_by_email: the id of the (first) row with that email, Optional
get_user_by_email(us, email) ==
    LET found == {id \in DOMAIN us :
                     ~IsNone(us[id]) /\ Val(us[id]).email = Normalise(email)}
    IN  IF found = {} THEN None ELSE Some(CHOOSE id \in found : TRUE)

\* The uuid4 create_user draws: an id no row has
FreshUserId(us) == CHOOSE id \in DOMAIN us : IsNone(us[id])

\* create_user(email, password=None, is_admin=False, is_active=True): the
\* table with the new row, or the table as it was when the INSERT raises
\* IntegrityError
\* The INSERT of create_user violates UNIQUE(email): the email it would store
\* is the email of a row
email_taken(us, email) ==
    \E id \in DOMAIN us : IF IsNone(us[id]) THEN FALSE
                          ELSE Val(us[id]).email = Normalise(email)

\* A create_user whose INSERT meets no UNIQUE constraint
create_user_any_email(us, email, password, is_admin, is_active) ==
    [us EXCEPT ![FreshUserId(us)] =
        Some(NewUserRow(email, password, is_admin, is_active))]

create_user(us, email, password, is_admin, is_active) ==
    IF email_taken(us, email) THEN us
    ELSE [us EXCEPT ![FreshUserId(us)] =
             Some(NewUserRow(email, password, is_admin, is_active))]

\* update_user(user_id, password=..., is_active=...,
\* require_password_reset=...): an UPDATE ... WHERE id = ? of the fields that
\* are not None; a password sets its hash and require_password_reset = 0,
\* and a require_password_reset given comes after it in the SET list
update_user(us, user_id, password, is_active, require_password_reset) ==
    IF user_id \notin DOMAIN us \/ IsNone(get_user_by_id(us, user_id)) THEN us
    ELSE [us EXCEPT ![user_id] = Some(
             [Val(@) EXCEPT
                 !.password_hash = IF IsNone(password) THEN @
                                   ELSE Some(hash_password(Val(password))),
                 !.is_active = IF IsNone(is_active) THEN @ ELSE Val(is_active),
                 !.require_password_reset =
                     IF ~IsNone(require_password_reset)
                     THEN Val(require_password_reset)
                     ELSE IF ~IsNone(password) THEN FALSE ELSE @])]

\* create_admin_relationship: inserts the pair unless it is there
create_admin_relationship(ua, admin_id, user_id) ==
    ua \cup {<<admin_id, user_id>>}

\* get_admin_users: the users joined to the admin through user_admins
get_admin_users(us, ua, admin_id) ==
    {id \in DOMAIN us : ~IsNone(us[id]) /\ <<admin_id, id>> \in ua}

\* tag.strip().lower() on the tags requests carry
NormaliseTag(tag) == IF tag = " T1 " THEN "t1" ELSE tag

\* set_user_tags: replaces the user's tags by the normalised non-blank ones
set_user_tags(ut, user_id, tags) ==
    [ut EXCEPT ![user_id] =
        {NormaliseTag(tags[i]) : i \in {j \in 1..Len(tags) : NormaliseTag(tags[j]) # ""}}]

\* get_user_tags
get_user_tags(ut, user_id) == IF user_id \in DOMAIN ut THEN ut[user_id] ELSE {}

\* set_default_quotas: create_quota for each generation type of
\* DEFAULT_QUOTAS, in its order, that has no row: [ok, table]
RECURSIVE set_default_quotas_from(_, _, _, _)
set_default_quotas_from(uq, user_id, gen_types, t) ==
    IF gen_types = <<>> THEN [ok |-> TRUE, table |-> uq]
    ELSE LET gen_type == Head(gen_types)
             r == IF IsNone(get_quota(uq, user_id, gen_type))
                  THEN create_quota(uq, user_id, gen_type,
                                    Some(DEFAULT_QUOTAS[gen_type].type),
                                    DEFAULT_QUOTAS[gen_type].limit, t)
                  ELSE [ok |-> TRUE, table |-> uq]
         IN  IF r.ok THEN set_default_quotas_from(r.table, user_id, Tail(gen_types), t)
             ELSE r

\* The keys of DEFAULT_QUOTAS in the order the dict lists them
DefaultQuotaTypes == <<"image", "video", "edit">>

set_default_quotas(uq, user_id, t) ==
    set_default_quotas_from(uq, user_id, DefaultQuotaTypes, t)

\* The threads that call initialize_database
Threads == {"t1", "t2"}

\* MIGRATIONS: the versions, in the order of the list
MIGRATIONS == <<1, 2, 3, 4, 5, 6, 7>>

\* A database on which every migration has run, in a process that has
\* initialised it
SchemaReady ==
    [schema_migrations |-> {MIGRATIONS[i] : i \in 1..Len(MIGRATIONS)},
     ran |-> MIGRATIONS,
     _db_initialized |-> TRUE,
     _db_lock |-> None,
     starts |-> 0,
     thread |-> [t \in Threads |->
                    [pc |-> "idle", applied_versions |-> {}, todo |-> <<>>,
                     inserted |-> {}]]]

\* The <<user_id, resource_type>> pairs the routers pass to check_rate_limit
RateKeys == {<<"anonymous", "image">>, <<"u1", "video">>, <<"u1", "speech">>}

\* The process before any request reached check_rate_limit
LimiterIdle ==
    [_rate_limits |-> [key \in RateKeys |-> <<>>],
     accepted |-> [key \in RateKeys |-> <<>>]]

\* The job queue and the session table before any request that touches them
TrackIdle ==
    /\ queue = <<>>
    /\ user_sessions = <<>>
    /\ issued = 0
    /\ schema = SchemaReady
    /\ limiter = LimiterIdle

\* The store of user and media data before any request that touches it
StoreIdle ==
    /\ users = [id \in UserIds |->
                   IF id = "a2" THEN None
                   ELSE Some(NewUserRow(IF id = "a1" THEN "a1@x"
                                        ELSE IF id = "u1" THEN "u1@x" ELSE "u2@x",
                                        Some(InitialPassword), id \in Managers,
                                        TRUE))]
    /\ user_tags = [id \in UserIds |-> {}]
    /\ media = <<>>
    /\ files = {}
    /\ thumbnails = {}

----------------------------------------------------------------------------
(* MediaStorage *)

\* media: the rows of the media table in insertion order
\* files: the files under .media-storage, as [dir, name, data]
\* thumbnails: the media ids that have a cached thumbnail

\* uuid4 values save_media can draw
MediaIds == {"m1", "m2", "m3"}

\* type values the media table accepts (CHECK constraint)
ValidMediaTypes == {"image", "video"}

\* conn.row_factory = sqlite3.Row: whether a row offers dict's get method
RowHasGet == FALSE

\* base64.b64decode: [ok, bytes]; ok = FALSE is binascii.Error
b64decode(base64_data) ==
    IF base64_data = "QQ==" THEN [ok |-> TRUE, bytes |-> <<65>>]
    ELSE IF base64_data = "QkI=" THEN [ok |-> TRUE, bytes |-> <<66, 66>>]
    ELSE [ok |-> FALSE, bytes |-> <<>>]

\* mime_type.startswith("video/") on the MIME types requests carry
StartsWithVideo(mime_type) ==
    mime_type \in {"video/mp4", "video/webm", "video/quicktime"}

\* MediaStorage._get_extension
_get_extension(mime_type) ==
    CASE mime_type = "video/mp4" -> "mp4"
      [] mime_type = "video/webm" -> "webm"
      [] mime_type = "image/png" -> "png"
      [] mime_type \in {"image/jpeg", "image/jpg"} -> "jpg"
      [] mime_type = "image/webp" -> "webp"
      [] mime_type = "image/gif" -> "gif"
      [] OTHER -> IF StartsWithVideo(mime_type) THEN "mp4" ELSE "png"

\* VIDEOS_DIR / filename if media_type == "video" else IMAGES_DIR / filename
file_path(media_type, filename) ==
    [dir |-> IF media_type = "video" THEN "videos" ELSE "images", name |-> filename]

\* json.dumps and json.loads on the details dict
json_dumps(d) == <<"json", d>>
json_loads(text) == text[2]

\* The mimeType save_media takes from the metadata, or the type's default
MimeTypeOf(media_type, metadata) ==
    DictGet(metadata, "mimeType",
            IF media_type = "video" THEN "video/mp4" ELSE "image/png")

\* save_media whose write_bytes leaves no file behind
save_media_write_unwritten(fs, media_id, media_type, base64_data, metadata, t) ==
    LET filename == <<media_id, _get_extension(MimeTypeOf(media_type, metadata))>>
        decoded == b64decode(base64_data)
    IN  IF ~decoded.ok THEN [ok |-> FALSE, files |-> fs, media_metadata |-> None]
        ELSE [ok |-> TRUE,
              files |-> fs,
              media_metadata |-> Some(
                  [id |-> media_id,
                   type |-> media_type,
                   filename |-> filename,
                   prompt |-> DictGet(metadata, "prompt", ""),
                   model |-> DictGet(metadata, "model", ""),
                   userId |-> DictGet(metadata, "userId", "anonymous"),
                   createdAt |-> t,
                   fileSize |-> Len(decoded.bytes),
                   mimeType |-> MimeTypeOf(media_type, metadata),
                   details |-> DictGet(metadata, "details", None),
                   ipAddress |-> DictGet(metadata, "ipAddress", None)])]

\* save_media up to file_path.write_bytes: [ok, files, media_metadata];
\* ok = FALSE is the error of b64decode, with nothing written
save_media_write(fs, media_id, media_type, base64_data, metadata, t) ==
    LET filename == <<media_id, _get_extension(MimeTypeOf(media_type, metadata))>>
        path == file_path(media_type, filename)
        decoded == b64decode(base64_data)
    IN  IF ~decoded.ok THEN [ok |-> FALSE, files |-> fs, media_metadata |-> None]
        ELSE [ok |-> TRUE,
              files |-> {f \in fs : f.dir # path.dir \/ f.name # path.name}
                        \cup {[dir |-> path.dir, name |-> path.name,
                               data |-> decoded.bytes]},
              media_metadata |-> Some(
                  [id |-> media_id,
                   type |-> media_type,
                   filename |-> filename,
                   prompt |-> DictGet(metadata, "prompt", ""),
                   model |-> DictGet(metadata, "model", ""),
                   userId |-> DictGet(metadata, "userId", "anonymous"),
                   createdAt |-> t,
                   fileSize |-> Len(decoded.bytes),
                   mimeType |-> MimeTypeOf(media_type, metadata),
                   details |-> DictGet(metadata, "details", None),
                   ipAddress |-> DictGet(metadata, "ipAddress", None)])]

\* save_media, its INSERT INTO media: [ok, media]; ok = FALSE is
\* sqlite3.IntegrityError
save_media_insert(rows, media_metadata) ==
    IF media_metadata.type \in ValidMediaTypes
    THEN [ok |-> TRUE,
          media |-> Append(rows,
              [id |-> media_metadata.id,
               type |-> media_metadata.type,
               filename |-> media_metadata.filename,
               prompt |-> media_metadata.prompt,
               model |-> media_metadata.model,
               user_id |-> media_metadata.userId,
               created_at |-> media_metadata.createdAt,
               file_size |-> media_metadata.fileSize,
               mime_type |-> media_metadata.mimeType,
               details |-> IF ~IsNone(media_metadata.details)
                              /\ DOMAIN Val(media_metadata.details) # {}
                           THEN Some(json_dumps(Val(media_metadata.details)))
                           ELSE None,
               ip_address |-> media_metadata.ipAddress])]
    ELSE [ok |-> FALSE, media |-> rows]

\* SELECT * FROM media WHERE id = ?: Optional[row]
media_row(rows, media_id) ==
    IF \E i \in 1..Len(rows) : rows[i].id = media_id
    THEN Some(rows[CHOOSE i \in 1..Len(rows) : rows[i].id = media_id])
    ELSE None

\* MediaStorage._row_to_metadata: [raised, metadata]; raised is the
\* AttributeError of row.get("ip_address") on a sqlite3.Row
_row_to_metadata(row) ==
    IF ~RowHasGet THEN [raised |-> TRUE, metadata |-> None]
    ELSE [raised |-> FALSE,
          metadata |-> Some(
              [id |-> row.id,
               type |-> row.type,
               filename |-> row.filename,
               prompt |-> row.prompt,
               model |-> row.model,
               userId |-> row.user_id,
               createdAt |-> row.created_at,
               fileSize |-> row.file_size,
               mimeType |-> row.mime_type,
               details |-> IF IsNone(row.details) THEN None
                           ELSE Some(json_loads(Val(row.details))),
               ipAddress |-> row.ip_address])]

\* The file at a path: Optional[bytes]
read_bytes(fs, path) ==
    IF \E f \in fs : f.dir = path.dir /\ f.name = path.name
    THEN Some((CHOOSE f \in fs : f.dir = path.dir /\ f.name = path.name).data)
    ELSE None

\* MediaStorage.get_media: [raised, result]; result is Optional[{data, metadata}]
get_media(rows, fs, media_id) ==
    LET row == media_row(rows, media_id)
        meta == _row_to_metadata(Val(row))
        path == file_path(Val(meta.metadata).type, Val(meta.metadata).filename)
    IN  IF IsNone(row) THEN [raised |-> FALSE, result |-> None]
        ELSE IF meta.raised THEN [raised |-> TRUE, result |-> None]
        ELSE IF IsNone(read_bytes(fs, path)) THEN [raised |-> FALSE, result |-> None]
        ELSE [raised |-> FALSE,
              result |-> Some([data |-> Val(read_bytes(fs, path)),
                               metadata |-> Val(meta.metadata)])]

\* MediaStorage.delete_media: [raised, deleted, media, files]
delete_media(rows, fs, media_id) ==
    LET row == media_row(rows, media_id)
        meta == _row_to_metadata(Val(row))
        path == file_path(Val(meta.metadata).type, Val(meta.metadata).filename)
    IN  IF IsNone(row)
        THEN [raised |-> FALSE, deleted |-> FALSE, media |-> rows, files |-> fs]
        ELSE IF meta.raised
        THEN [raised |-> TRUE, deleted |-> FALSE, media |-> rows, files |-> fs]
        ELSE [raised |-> FALSE, deleted |-> TRUE,
              media |-> SelectSeq(rows, LAMBDA r : r.id # media_id),
              files |-> {f \in fs : f.dir # path.dir \/ f.name # path.name}]

\* MediaStorage.get_stats: the aggregate over the whole media table
get_stats(rows) ==
    [totalFiles |-> Len(rows),
     images |-> Len(SelectSeq(rows, LAMBDA r : r.type = "image")),
     videos |-> Len(SelectSeq(rows, LAMBDA r : r.type = "video"))]

\* MediaStorage.get_user_stats: the same aggregate WHERE user_id = ?
get_user_stats(rows, user_id) ==
    get_stats(SelectSeq(rows, LAMBDA r : r.user_id = user_id))

\* ORDER BY created_at DESC: insertion of one row into a sorted prefix (rows of
\* equal created_at stay in the order the table holds them)
RECURSIVE InsertByCreatedAt(_, _)
InsertByCreatedAt(sorted, row) ==
    IF sorted = <<>> THEN <<row>>
    ELSE IF Head(sorted).created_at >= row.created_at
         THEN <<Head(sorted)>> \o InsertByCreatedAt(Tail(sorted), row)
         ELSE <<row>> \o sorted

RECURSIVE OrderByCreatedAtDesc(_)
OrderByCreatedAtDesc(rows) ==
    IF rows = <<>> THEN <<>>
    ELSE InsertByCreatedAt(OrderByCreatedAtDesc(SubSeq(rows, 1, Len(rows) - 1)),
                           rows[Len(rows)])

Min(a, b) == IF a < b THEN a ELSE b

\* LIMIT ? OFFSET ?
LimitOffset(rows, limit, offset) ==
    SubSeq(rows, offset + 1, Min(offset + limit, Len(rows)))

\* SELECT * FROM media WHERE user_id = ? [AND type = ?] ORDER BY
\* datetime(created_at) DESC
user_media_rows(rows, user_id, media_type) ==
    OrderByCreatedAtDesc(SelectSeq(rows, LAMBDA r :
        /\ r.user_id = user_id
        /\ IsNone(media_type) \/ r.type = Val(media_type)))

\* [self._row_to_metadata(row) for row in rows]: [raised, media]
rows_to_metadata(found) ==
    IF \E i \in 1..Len(found) : _row_to_metadata(found[i]).raised
    THEN [raised |-> TRUE, media |-> <<>>]
    ELSE [raised |-> FALSE, media |-> found]

\* MediaStorage.list_user_media with the limit and offset the router passes
list_user_media(rows, user_id, media_type, limit, offset) ==
    rows_to_metadata(LimitOffset(user_media_rows(rows, user_id, media_type),
                                 limit, offset))

\* MediaStorage.count_user_media: SELECT COUNT(*) of the same rows
count_user_media(rows, user_id, media_type) ==
    Len(user_media_rows(rows, user_id, media_type))

----------------------------------------------------------------------------
(* routers/media.py *)

\* db_user.is_admin
is_admin(us, user_id) == ~IsNone(us[user_id]) /\ Val(us[user_id]).is_admin

\* list_media: [status, media, total, pages]
list_media(rows, us, ua, db_user_id, type, page, limit) ==
    LET offset == (page - 1) * limit
        managed_user_ids == get_admin_users(us, ua, db_user_id) \cup {db_user_id}
        matching == SelectSeq(rows, LAMBDA r :
                        /\ r.user_id \in managed_user_ids
                        /\ IsNone(type) \/ r.type = Val(type))
        total_count == Len(matching)
    IN  IF is_admin(us, db_user_id)
        THEN [status |-> 200,
              media |-> LimitOffset(OrderByCreatedAtDesc(matching), limit, offset),
              total |-> total_count,
              pages |-> (total_count + limit - 1) \div limit]
        ELSE LET own_count == count_user_media(rows, db_user_id, type)
                 own == list_user_media(rows, db_user_id, type, limit, offset)
             IN  IF own.raised
                 THEN [status |-> 500, media |-> <<>>, total |-> 0, pages |-> 0]
                 ELSE [status |-> 200,
                       media |-> own.media,
                       total |-> own_count,
                       pages |-> (own_count + limit - 1) \div limit]

\* get_stats of the router: [status, stats]
get_stats_endpoint(rows, us, db_user_id) ==
    [status |-> 200,
     stats |-> IF is_admin(us, db_user_id) THEN get_stats(rows)
               ELSE get_user_stats(rows, db_user_id)]

\* The access decision get_media, delete_media and get_media_thumbnail make
\* on the owner of the item they fetched
access_allowed(us, ua, db_user_id, media_user_id) ==
    IF ~is_admin(us, db_user_id) THEN media_user_id = db_user_id
    ELSE IF media_user_id # db_user_id
         THEN can_admin_manage_user(ua, db_user_id, media_user_id)
         ELSE TRUE

\* What get_media, delete_media and get_media_thumbnail do before they act:
\* the status they fail with, or 200 (get_media's answer)
fetch_status(rows, fs, us, ua, db_user_id, media_id) ==
    LET result == get_media(rows, fs, media_id)
    IN  IF result.raised THEN 500
        ELSE IF IsNone(result.result) THEN 404
        ELSE IF ~access_allowed(us, ua, db_user_id,
                                Val(result.result).metadata.userId) THEN 403
        ELSE 200

\* get_media_thumbnail: [status, thumbnails]
get_media_thumbnail(rows, fs, th, us, ua, db_user_id, media_id) ==
    LET status == fetch_status(rows, fs, us, ua, db_user_id, media_id)
    IN  [status |-> status,
         thumbnails |-> IF status = 200 THEN th \cup {media_id} ELSE th]

\* delete_media of the router: [status, media, files, thumbnails]
delete_media_endpoint(rows, fs, th, us, ua, db_user_id, media_id) ==
    LET status == fetch_status(rows, fs, us, ua, db_user_id, media_id)
        deleted == delete_media(rows, fs, media_id)
    IN  IF status # 200
        THEN [status |-> status, media |-> rows, files |-> fs, thumbnails |-> th]
        ELSE IF deleted.raised
        THEN [status |-> 500, media |-> rows, files |-> fs, thumbnails |-> th]
        ELSE IF ~deleted.deleted
        THEN [status |-> 404, media |-> rows, files |-> fs, thumbnails |-> th]
        ELSE [status |-> 200, media |-> deleted.media, files |-> deleted.files,
              thumbnails |-> th \ {media_id}]

----------------------------------------------------------------------------
(* Inputs *)

\* The settings dict of one generation type in an UpdateQuotasRequest
SettingsInputs ==
    {[type |-> Some("limited"), limit |-> Some(n)] : n \in -1..MaxLimit}
        \cup {[limit |-> Some(n)] : n \in 0..MaxLimit}
        \cup {[type |-> Some("limited")], [type |-> Some("unlimited")],
              [type |-> Some("limited"), limit |-> None],
              [type |-> None, limit |-> None],
              [type |-> Some("bogus")]}

\* The generation types admins reconfigure ("speech" is none of the endpoint's)
UpdateInputs == {"text", "speech"}

Call(op, user, generation_type, status, allowed) ==
    [op |-> op, user |-> user, generation_type |-> generation_type,
     status |-> status, allowed |-> allowed]

NoRequest ==
    [ep |-> "none", user |-> "none", checked |-> FALSE, job |-> "none", quota |-> None]

----------------------------------------------------------------------------
(* The quota engine called operation by operation: every QuotaManager call  *)
(* and every admin request runs to completion before the next one starts.   *)

Keys == Users \X ValidGenerationTypes

\* calls[k] after a call on key k that was not an increment_quota
Recount(uq, k) ==
    LET quota == get_quota(uq, k[1], k[2])
    IN  IF ~IsNone(quota) /\ Val(quota).quota_type = "limited"
           /\ Val(quota).quota_used = 0
        THEN Some(0) ELSE None

\* calls[k] after an increment_quota on key k
Counted(uq, k, before) ==
    LET quota == get_quota(uq, k[1], k[2])
    IN  IF ~IsNone(before) /\ ~IsNone(quota) /\ Val(quota).quota_type = "limited"
        THEN Some(Val(before) + 1) ELSE None

Init ==
    /\ user_quotas = [k \in Keys |-> <<>>]
    /\ user_admins = {<<"a1", "u1">>}
    /\ now = 0
    /\ last = Call("none", "u1", "video", 0, TRUE)
    /\ calls = [k \in Keys |-> None]
    /\ pc = [p \in Procs |-> "idle"]
    /\ req = [p \in Procs |-> NoRequest]
    /\ video_jobs = [j \in JobIds |-> None]
    /\ operations = [j \in JobIds |-> "none"]
    /\ charges = [k \in Keys |-> 0]
    /\ peak = [k \in Keys |-> 0]
    /\ StoreIdle
    /\ TrackIdle

CheckQuota(u, c) ==
    LET r == check_quota(user_quotas, u, c, now)
    IN  /\ user_quotas' = r.table
        /\ last' = Call("check_quota", u, c, 0, r.allowed)
        /\ UNCHANGED <<user_admins, now, calls, genVars, storeVars, trackVars>>

IncrementQuota(u, c) ==
    LET quota == get_quota(user_quotas, u, c)
        r == increment_quota(user_quotas, u, c, now)
    IN  /\ quota_used_below(quota, MaxUsed)
        /\ user_quotas' = r.table
        /\ last' = Call("increment_quota", u, c, IF r.ok THEN 0 ELSE 500, TRUE)
        /\ calls' = IF <<u, c>> \in Keys
                    THEN [calls EXCEPT ![<<u, c>>] = Counted(r.table, <<u, c>>, @)]
                    ELSE calls
        /\ UNCHANGED <<user_admins, now, genVars, storeVars, trackVars>>

UpdateUserQuotas(a, u, g, settings) ==
    LET r == update_user_quotas(user_quotas, user_admins, a, u, g, settings, now)
    IN  /\ user_quotas' = r.table
        /\ last' = Call("update_user_quotas", u, g, r.status, TRUE)
        /\ calls' = IF r.status = 200 /\ <<u, g>> \in Keys
                    THEN [calls EXCEPT ![<<u, g>>] = Recount(r.table, <<u, g>>)]
                    ELSE calls
        /\ UNCHANGED <<user_admins, now, genVars, storeVars, trackVars>>

ResetUserQuotas(a, u, g) ==
    LET r == reset_user_quotas(user_quotas, user_admins, a, u, g, now)
    IN  /\ user_quotas' = r.table
        /\ last' = Call("reset_user_quotas", u, g, r.status, TRUE)
        /\ calls' = IF r.status = 200 /\ <<u, g>> \in Keys
                    THEN [calls EXCEPT ![<<u, g>>] = Recount(r.table, <<u, g>>)]
                    ELSE calls
        /\ UNCHANGED <<user_admins, now, genVars, storeVars, trackVars>>

Next ==
    \/ \E u \in Users, c \in Categories : CheckQuota(u, c)
    \/ \E u \in Users, c \in Categories : IncrementQuota(u, c)
    \/ \E a \in Admins, u \in Users, g \in UpdateInputs, s \in SettingsInputs :
           UpdateUserQuotas(a, u, g, s)
    \/ \E a \in Admins, u \in Users, g \in Categories : ResetUserQuotas(a, u, g)

Spec == Init /\ [][Next]_vars

----------------------------------------------------------------------------
(* Properties of the quota engine *)

\* The first quota row of key k, when it has one
HasQuota(k) == ~IsNone(get_quota(user_quotas, k[1], k[2]))
QuotaOf(k) == Val(get_quota(user_quotas, k[1], k[2]))

IsLimited(q) == q.quota_type = "limited" /\ ~IsNone(q.quota_limit)

\* C1: a limited quota with limit L >= 1 that had quota_used = 0 is denied by
\* check_quota after exactly L increment_quota calls and allowed after L - 1.
C1_DeniedAfterLimitCalls ==
    \A k \in Keys :
        (/\ HasQuota(k)
         /\ IsLimited(QuotaOf(k))
         /\ Val(QuotaOf(k).quota_limit) >= 1
         /\ ~IsNone(calls[k]))
        => LET L == Val(QuotaOf(k).quota_limit)
               r == check_quota(user_quotas, k[1], k[2], now)
           IN  /\ Val(calls[k]) = L => ~r.allowed
               /\ Val(calls[k]) = L - 1 => r.allowed

\* C1 witness: the check made right after the L-th increment, denied
C1_Witness ==
    \E k \in Keys :
        /\ HasQuota(k)
        /\ IsLimited(QuotaOf(k))
        /\ Val(QuotaOf(k).quota_limit) >= 1
        /\ calls[k] = QuotaOf(k).quota_limit
        /\ last = Call("check_quota", k[1], k[2], 0, FALSE)

\* The key the step's call was made on (every step records its call in last)
Target == <<last'.user, last'.generation_type>>

\* C5: increment_quota adds exactly 1 to quota_used of a limited quota,
\* whatever quota_used and the limit are, and leaves the table as it is when
\* the quota is unlimited.
C5_IncrementAddsOne ==
    [][(last'.op = "increment_quota" /\ HasQuota(Target))
       => LET q == QuotaOf(Target)
          IN  /\ q.quota_type = "limited"
                 => user_quotas' =
                        [user_quotas EXCEPT ![Target][1].quota_used = q.quota_used + 1]
              /\ q.quota_type = "unlimited" => user_quotas' = user_quotas]_vars

\* C5 witness: an increment has taken a limited quota above its limit
C5_Witness ==
    \E k \in Keys :
        /\ HasQuota(k)
        /\ IsLimited(QuotaOf(k))
        /\ Val(QuotaOf(k).quota_limit) >= 0
        /\ QuotaOf(k).quota_used > Val(QuotaOf(k).quota_limit)
        /\ last = Call("increment_quota", k[1], k[2], 0, TRUE)

\* The details of the permission errors of the quota endpoints
PermissionDetails ==
    {"You don't have permission to view this user's quotas",
     "You don't have permission to update this user's quotas",
     "You don't have permission to reset this user's quotas"}

\* C6: a limited quota with limit 0 and quota_used = 0 is denied by check_quota,
\* with a quota-exceeded message that is none of the permission errors.
C6_ZeroLimitDenied ==
    \A k \in Keys :
        (/\ HasQuota(k)
         /\ QuotaOf(k).quota_type = "limited"
         /\ QuotaOf(k).quota_limit = Some(0)
         /\ QuotaOf(k).quota_used = 0)
        => LET r == check_quota(user_quotas, k[1], k[2], now)
           IN  /\ ~r.allowed
               /\ ~IsNone(r.message)
               /\ Val(r.message).text = "Quota exceeded"
               /\ Val(r.message).text \notin PermissionDetails
               /\ Val(r.message).used = 0
               /\ Val(r.message).limit = 0
               /\ (last.op = "check_quota" /\ <<last.user, last.generation_type>> = k)
                      => ~last.allowed

\* C6 witness: the first check of a quota created with limit 0 was denied
C6_Witness ==
    \E k \in Keys :
        /\ HasQuota(k)
        /\ QuotaOf(k).quota_type = "limited"
        /\ QuotaOf(k).quota_limit = Some(0)
        /\ QuotaOf(k).quota_used = 0
        /\ last = Call("check_quota", k[1], k[2], 0, FALSE)

\* The table of a new database
EmptyTable == [k \in Keys |-> <<>>]

\* check_quota on a quota just created with the policy and limit of q
FreshCheck(q, t) ==
    check_quota(create_quota(EmptyTable, q.user_id, q.generation_type,
                             Some(q.quota_type), q.quota_limit, t).table,
                q.user_id, q.generation_type, t)

\* C7: after a reset of (u, g), check_quota(u, g) returns the (allowed, message)
\* of a quota just created with the same policy and limit.
C7_ResetLikeFresh ==
    [][(/\ last'.op = "reset_user_quotas"
        /\ last'.status = 200
        /\ HasQuota(Target))
       => LET after == check_quota(user_quotas', Target[1], Target[2], now')
              fresh == FreshCheck(QuotaOf(Target), now')
          IN  /\ after.allowed = fresh.allowed
              /\ after.message = fresh.message]_vars

\* C7 witness: a limited quota that had been used has just been reset
C7_Witness ==
    \E k \in Keys :
        /\ HasQuota(k)
        /\ IsLimited(QuotaOf(k))
        /\ Val(QuotaOf(k).quota_limit) >= 1
        /\ QuotaOf(k).quota_used = 0
        /\ calls[k] = Some(0)
        /\ last = Call("reset_user_quotas", k[1], k[2], 200, TRUE)

\* C8: a reset of (u, g) sets quota_used of (u, g) to 0, keeps its policy and
\* limit, and changes no other row; an increment on (u, c) changes no row of
\* another user or generation type.
C8_ResetAndIncrementFrame ==
    [][/\ (/\ last'.op = "reset_user_quotas"
           /\ last'.status = 200
           /\ HasQuota(Target))
          => /\ user_quotas'[Target][1].quota_used = 0
             /\ user_quotas'[Target][1].quota_limit = QuotaOf(Target).quota_limit
             /\ user_quotas'[Target][1].quota_type = QuotaOf(Target).quota_type
             /\ \A k \in Keys \ {Target} : user_quotas'[k] = user_quotas[k]
       /\ last'.op = "increment_quota"
          => \A k \in Keys \ {Target} : user_quotas'[k] = user_quotas[k]]_vars

\* C8 witness: a used quota has just been reset while another quota of the
\* same user and a quota of another user are in use
C8_Witness ==
    \E k \in Keys :
        /\ HasQuota(k)
        /\ QuotaOf(k).quota_used = 0
        /\ last = Call("reset_user_quotas", k[1], k[2], 200, TRUE)
        /\ \E k2 \in Keys : k2[1] = k[1] /\ k2 # k /\ HasQuota(k2)
                            /\ QuotaOf(k2).quota_used > 0
        /\ \E k3 \in Keys : k3[1] # k[1] /\ HasQuota(k3) /\ QuotaOf(k3).quota_used > 0

\* C9 (as claimed): an update that switches a quota to unlimited leaves it with
\* a null limit.
C9_UnlimitedClearsLimit ==
    [][(/\ last'.op = "update_user_quotas"
        /\ last'.status = 200
        /\ HasQuota(Target)
        /\ QuotaOf(Target).quota_type # "unlimited"
        /\ user_quotas'[Target][1].quota_type = "unlimited")
       => IsNone(user_quotas'[Target][1].quota_limit)]_vars

\* C10 (as claimed): no quota row has a limited policy with a null or a
\* negative limit.
C10_LimitedHasLimit ==
    \A k \in Keys :
        \A n \in 1..Len(user_quotas[k]) :
            user_quotas[k][n].quota_type = "limited"
            => /\ ~IsNone(user_quotas[k][n].quota_limit)
               /\ Val(user_quotas[k][n].quota_limit) >= 0

----------------------------------------------------------------------------
(* The generation endpoints, served by request handlers that run            *)
(* concurrently (one per worker process) on the one database: a handler's   *)
(* statements on the database are single steps that interleave with the     *)
(* other handlers'.                                                         *)

\* The users that send generation requests
Callers == {"u1"}

\* Endpoints that call check_quota, and those that do not
CheckedEndpoints ==
    {"generate_text", "send_chat_message", "generate_video", "animate_image",
     "generate_speech"}
UncheckedEndpoints == {"generate_image", "edit_image"}
GenerationEndpoints == CheckedEndpoints \cup UncheckedEndpoints

\* The generation type an endpoint passes to check_quota / increment_quota
\* (the image endpoints pass none: "image" is the category they generate)
EndpointCategory(ep) ==
    CASE ep \in {"generate_text", "send_chat_message"} -> "text"
      [] ep \in {"generate_video", "animate_image", "check_video_status"} -> "video"
      [] ep = "generate_speech" -> "speech"
      [] OTHER -> "image"

\* The status of the HTTPException an endpoint raises when check_quota denies
DeniedStatus(ep) ==
    IF ep \in {"generate_text", "send_chat_message"} THEN 403 ELSE 429

\* Endpoints whose external call starts a provider operation and a job
VideoEndpoints == {"generate_video", "animate_image"}

\* The steps of a handler inside increment_quota
IncrementSteps == {"inc_get", "inc_create", "inc_reget", "inc_update"}

Max(a, b) == IF a >= b THEN a ELSE b

Request(ep, user, checked, job) ==
    [ep |-> ep, user |-> user, checked |-> checked, job |-> job, quota |-> None]

\* The generation requests of key k that have passed check_quota and are not
\* finished: handlers between the check and the end of the request, and video
\* jobs still processing
InFlight(pcv, reqv, jobsv, k) ==
    Cardinality({p \in Procs :
        /\ pcv[p] \in {"generate"} \cup IncrementSteps
        /\ reqv[p].ep \in CheckedEndpoints
        /\ <<reqv[p].user, EndpointCategory(reqv[p].ep)>> = k})
    + Cardinality({j \in JobIds :
        /\ k[2] = "video"
        /\ ~IsNone(jobsv[j])
        /\ Val(jobsv[j]).userId = k[1]
        /\ Val(jobsv[j]).status = "processing"})

\* The handlers that are going to run increment_quota's UPDATE on key k
Pending(k) ==
    Cardinality({p \in Procs :
        /\ pc[p] \in {"generate"} \cup IncrementSteps
        /\ <<req[p].user, EndpointCategory(req[p].ep)>> = k})

PeakAfter ==
    peak' = [k \in Keys |-> Max(peak[k], InFlight(pc', req', video_jobs', k))]

\* The table after an admin gave user_id a limited quota of limit L for every
\* generation type
Provisioned(user_id, L) ==
    LET t1 == create_quota([k \in Keys |-> <<>>], user_id, "image",
                           Some("limited"), Some(L), 0).table
        t2 == create_quota(t1, user_id, "video", Some("limited"), Some(L), 0).table
    IN  create_quota(t2, user_id, "text", Some("limited"), Some(L), 0).table

InitGen ==
    /\ \E L \in 0..MaxLimit, provisioned \in BOOLEAN :
           user_quotas = IF provisioned THEN Provisioned("u1", L)
                         ELSE [k \in Keys |-> <<>>]
    /\ user_admins = {<<"a1", "u1">>}
    /\ now = 0
    /\ last = Call("none", "u1", "video", 0, TRUE)
    /\ calls = [k \in Keys |-> None]
    /\ pc = [p \in Procs |-> "idle"]
    /\ req = [p \in Procs |-> NoRequest]
    /\ video_jobs = [j \in JobIds |-> None]
    /\ operations = [j \in JobIds |-> "none"]
    /\ charges = [k \in Keys |-> 0]
    /\ peak = [k \in Keys |-> 0]
    /\ StoreIdle
    /\ TrackIdle

\* Handler p goes on to step with request r (a handler that answered is idle)
Goto(p, step, r) ==
    /\ pc' = [pc EXCEPT ![p] = step]
    /\ req' = [req EXCEPT ![p] = IF step = "idle" THEN NoRequest ELSE r]

\* The step of a handler after its increment_quota call returned
AfterIncrement(ep) == IF ep = "check_video_status" THEN "update_job" ELSE "idle"

\* A checked endpoint begins: check_quota, and HTTPException when it denies
QuotaCheck(p, ep, u) ==
    LET c == EndpointCategory(ep)
        r == check_quota(user_quotas, u, c, now)
    IN  /\ pc[p] = "idle"
        /\ IF <<u, c>> \in Keys
           THEN charges[<<u, c>>] + Pending(<<u, c>>) < MaxCharged
           ELSE TRUE
        /\ IF ep \in VideoEndpoints
           THEN \E j \in JobIds : operations[j] = "none"
           ELSE TRUE
        /\ user_quotas' = r.table
        /\ IF r.allowed
           THEN Goto(p, "generate", Request(ep, u, TRUE, "none"))
           ELSE Goto(p, "idle", NoRequest)
        /\ UNCHANGED <<video_jobs, operations, charges>>
        /\ PeakAfter
        /\ UNCHANGED <<user_admins, now, last, calls, storeVars, trackVars>>

\* An image endpoint begins: no quota call is made
StartUnchecked(p, ep, u) ==
    /\ pc[p] = "idle"
    /\ Goto(p, "generate", Request(ep, u, FALSE, "none"))
    /\ UNCHANGED <<video_jobs, operations, charges>>
    /\ PeakAfter
    /\ UNCHANGED <<user_quotas, user_admins, now, last, calls, storeVars, trackVars>>

\* The rest of the handler up to and with the external generation call:
\* "rejected" is an HTTPException before the call (rate limit, unknown model),
\* "error" a failed call, "ok" a generation that succeeded
ExternalCall(p, outcome) ==
    LET r == req[p]
    IN  /\ pc[p] = "generate"
        /\ IF outcome = "ok" /\ r.ep \in VideoEndpoints
           THEN \E j \in JobIds :
                    /\ operations[j] = "none"
                    /\ operations' = [operations EXCEPT ![j] = "running"]
                    /\ video_jobs' = [video_jobs EXCEPT ![j] =
                           Some([userId |-> r.user, status |-> "processing",
                                 stored |-> 0])]
                    /\ Goto(p, "idle", NoRequest)
           ELSE /\ UNCHANGED <<video_jobs, operations>>
                /\ IF outcome # "ok" THEN Goto(p, "idle", NoRequest)
                   ELSE IF r.ep \in UncheckedEndpoints \/ r.ep = "generate_speech"
                   THEN Goto(p, "save", r)
                   ELSE Goto(p, "inc_get", r)
        /\ UNCHANGED charges
        /\ PeakAfter
        /\ UNCHANGED <<user_quotas, user_admins, now, last, calls, storeVars, trackVars>>

\* An image endpoint stores what was generated and answers; generate_speech's
\* save_media("audio", ...) is refused by the media table (IntegrityError), so
\* the request ends with status 500 before its increment_quota
SaveMedia(p) ==
    /\ pc[p] = "save"
    /\ Goto(p, "idle", NoRequest)
    /\ UNCHANGED <<video_jobs, operations, charges>>
    /\ PeakAfter
    /\ UNCHANGED <<user_quotas, user_admins, now, last, calls, storeVars, trackVars>>

\* The provider ends a video operation
ProviderFinishes(j, outcome) ==
    /\ operations[j] = "running"
    /\ operations' = [operations EXCEPT ![j] = outcome]
    /\ UNCHANGED <<pc, req, video_jobs, charges, peak>>
    /\ UNCHANGED <<user_quotas, user_admins, now, last, calls, storeVars, trackVars>>

\* GET /api/video/status?jobId=j: asks the provider, and for an operation that
\* is done downloads the video (downloaded = FALSE: that raised), stores it
\* with save_media as a new media item (stored counts the items of the job)
\* and then charges the job's owner
CheckVideoStatus(p, j, downloaded) ==
    /\ pc[p] = "idle"
    /\ ~IsNone(video_jobs[j])
    /\ LET job == Val(video_jobs[j])
           k == <<job.userId, "video">>
       IN  IF operations[j] = "running"
           THEN /\ downloaded
                /\ video_jobs' = [video_jobs EXCEPT ![j] =
                       Some([job EXCEPT !.status = "processing"])]
                /\ UNCHANGED <<pc, req>>
           ELSE IF operations[j] = "error"
           THEN /\ downloaded
                /\ video_jobs' = [video_jobs EXCEPT ![j] =
                       Some([job EXCEPT !.status = "failed"])]
                /\ UNCHANGED <<pc, req>>
           ELSE IF downloaded
           THEN /\ charges[k] + Pending(k) < MaxCharged
                /\ Goto(p, "inc_get", Request("check_video_status", job.userId, FALSE, j))
                /\ video_jobs' = [video_jobs EXCEPT ![j] =
                       Some([job EXCEPT !.stored =
                                IF @ < MaxStored THEN @ + 1 ELSE @])]
           ELSE UNCHANGED <<pc, req, video_jobs>>
    /\ UNCHANGED <<operations, charges>>
    /\ PeakAfter
    /\ UNCHANGED <<user_quotas, user_admins, now, last, calls, storeVars, trackVars>>

\* increment_quota, its get_quota calls: the first, and the one after a
\* missing row was created
IncrementRead(p) ==
    LET r == req[p]
        quota == get_quota(user_quotas, r.user, EndpointCategory(r.ep))
    IN  /\ pc[p] \in {"inc_get", "inc_reget"}
        /\ IF IsNone(quota)
           THEN /\ Goto(p, IF pc[p] = "inc_get" THEN "inc_create"
                           ELSE AfterIncrement(r.ep), r)
           ELSE IF Val(quota).quota_type # "unlimited"
           THEN /\ Goto(p, "inc_update", [r EXCEPT !.quota = Some(Val(quota).id)])
           ELSE /\ Goto(p, AfterIncrement(r.ep), r)
        /\ UNCHANGED <<video_jobs, operations, charges>>
        /\ PeakAfter
        /\ UNCHANGED <<user_quotas, user_admins, now, last, calls, storeVars, trackVars>>

\* increment_quota, its create_quota for a missing row; the IntegrityError of
\* a generation type the table refuses ends the request with status 500
IncrementCreate(p) ==
    LET r == req[p]
        c == EndpointCategory(r.ep)
        created == create_quota(user_quotas, r.user, c,
                                DefaultFor(c).type, DefaultFor(c).limit, now)
    IN  /\ pc[p] = "inc_create"
        /\ user_quotas' = created.table
        /\ IF created.ok
           THEN Goto(p, "inc_reget", r)
           ELSE Goto(p, "idle", NoRequest)
        /\ UNCHANGED <<video_jobs, operations, charges>>
        /\ PeakAfter
        /\ UNCHANGED <<user_admins, now, last, calls, storeVars, trackVars>>

\* increment_quota, its UPDATE of the row it read
IncrementUpdate(p) ==
    LET r == req[p]
        c == EndpointCategory(r.ep)
    IN  /\ pc[p] = "inc_update"
        /\ user_quotas' = sql_increment_used(user_quotas, [id |-> Val(r.quota)])
        /\ charges' = [charges EXCEPT ![<<r.user, c>>] = @ + 1]
        /\ Goto(p, AfterIncrement(r.ep), r)
        /\ UNCHANGED <<video_jobs, operations>>
        /\ PeakAfter
        /\ UNCHANGED <<user_admins, now, last, calls, storeVars, trackVars>>

\* check_video_status, its update_job after the charge
UpdateJob(p) ==
    LET r == req[p]
    IN  /\ pc[p] = "update_job"
        /\ video_jobs' = [video_jobs EXCEPT ![r.job] =
               Some([Val(@) EXCEPT !.status = "completed"])]
        /\ Goto(p, "idle", NoRequest)
        /\ UNCHANGED <<operations, charges>>
        /\ PeakAfter
        /\ UNCHANGED <<user_quotas, user_admins, now, last, calls, storeVars, trackVars>>

NextGen ==
    \/ \E p \in Procs, ep \in CheckedEndpoints, u \in Callers : QuotaCheck(p, ep, u)
    \/ \E p \in Procs, ep \in UncheckedEndpoints, u \in Callers : StartUnchecked(p, ep, u)
    \/ \E p \in Procs, outcome \in {"ok", "error", "rejected"} : ExternalCall(p, outcome)
    \/ \E p \in Procs : SaveMedia(p)
    \/ \E j \in JobIds, outcome \in {"done", "error"} : ProviderFinishes(j, outcome)
    \/ \E p \in Procs, j \in JobIds, downloaded \in BOOLEAN : CheckVideoStatus(p, j, downloaded)
    \/ \E p \in Procs : IncrementRead(p)
    \/ \E p \in Procs : IncrementCreate(p)
    \/ \E p \in Procs : IncrementUpdate(p)
    \/ \E p \in Procs : UpdateJob(p)

SpecGen == InitGen /\ [][NextGen]_vars

----------------------------------------------------------------------------
(* Properties of the generation endpoints *)

\* The steps of a handler after its external generation call succeeded
AfterCall == {"save"} \cup IncrementSteps

\* C2: every generation endpoint checks the caller's quota before the external
\* generation call: a handler of a generation endpoint that is past its
\* external call had its check_quota allow the request, and only a handler
\* past its external call is in increment_quota.
C2_CheckedBeforeCall ==
    \A p \in Procs :
        /\ (pc[p] \in AfterCall /\ req[p].ep \in GenerationEndpoints)
               => req[p].checked
        /\ (pc[p] \in IncrementSteps) => req[p].ep # "none"

\* C3: the quota_used of a limited quota ends above its quota_limit by at most
\* the number of generation requests that were in flight together.
C3_OverrunBounded ==
    \A k \in Keys :
        (HasQuota(k) /\ IsLimited(QuotaOf(k)))
            => QuotaOf(k).quota_used - Val(QuotaOf(k).quota_limit) <= peak[k]

\* C4: whatever the interleaving of the handlers, the quota_used of an
\* existing limited quota has grown (from 0) by exactly the number of
\* increment_quota calls made for its user and category.
C4_NoLostUpdate ==
    \A k \in Keys :
        (HasQuota(k) /\ QuotaOf(k).quota_type = "limited")
            => QuotaOf(k).quota_used = charges[k]

\* Increments were made for two categories of one user, and two handlers are
\* at the UPDATE of increment_quota together, one for each category.
C4_Witness ==
    \E p \in Procs, q \in Procs :
        /\ pc[p] = "inc_update" /\ req[p].ep = "generate_text"
        /\ pc[q] = "inc_update" /\ req[q].ep = "check_video_status"
        /\ req[p].user = req[q].user
        /\ charges[<<req[p].user, "text">>] >= 1
        /\ charges[<<req[p].user, "video">>] >= 1
        /\ QuotaOf(<<req[p].user, "text">>).quota_type = "limited"
        /\ QuotaOf(<<req[p].user, "video">>).quota_type = "limited"

\* C35: however often, and however concurrently, the status of a video job is
\* polled after the provider reported it done, the job is stored as at most
\* one media item and its owner's video quota is charged at most once for
\* it (the video quota is charged nowhere else, so a user's charges are at
\* most the number of that user's jobs).
C35_ChargedAndStoredOnce ==
    \A j \in JobIds :
        ~IsNone(video_jobs[j]) =>
            LET job == Val(video_jobs[j])
                owned == {i \in JobIds : /\ ~IsNone(video_jobs[i])
                                         /\ Val(video_jobs[i]).userId = job.userId}
            IN  /\ job.stored <= 1
                /\ charges[<<job.userId, "video">>] <= Cardinality(owned)

----------------------------------------------------------------------------
(* The users router (routers/users.py) and the admin operations on a user.  *)
(* The database of a request is the record [users, ua, uq, ut] of the       *)
(* tables users, user_admins, user_quotas and user_tags.                    *)

\* bulk_create_users, the custom defaultQuotas of a new user: create_quota for
\* each item of the dict, in its order: [ok, table]
RECURSIVE create_custom_quotas(_, _, _, _)
create_custom_quotas(uq, user_id, items, t) ==
    IF items = <<>> THEN [ok |-> TRUE, table |-> uq]
    ELSE LET gen_type == Head(items)[1]
             quota_settings == Head(items)[2]
             r == create_quota(uq, user_id, gen_type,
                               DictGet(quota_settings, "type", Some("daily")),
                               DictGet(quota_settings, "limit", None), t)
         IN  IF r.ok THEN create_custom_quotas(r.table, user_id, Tail(items), t)
             ELSE r

\* bulk_create_users, the body of its loop for one email: [ok, db]; ok = FALSE
\* is an exception, which ends the request with what was committed before it
bulk_create_one(db, admin_id, email, defaultQuotas, defaultTags, t) ==
    LET existing_user == get_user_by_email(db.users, email)
    IN  IF ~IsNone(existing_user)
        THEN [ok |-> TRUE,
              db |-> [db EXCEPT !.ua =
                         create_admin_relationship(@, admin_id, Val(existing_user))]]
        ELSE LET new_id == FreshUserId(db.users)
                 db1 == [db EXCEPT
                            !.users = create_user(@, email, None, FALSE, TRUE),
                            !.ua = create_admin_relationship(@, admin_id, new_id)]
                 r == IF defaultQuotas # <<>>
                      THEN create_custom_quotas(db.uq, new_id, defaultQuotas, t)
                      ELSE set_default_quotas(db.uq, new_id, t)
                 db2 == [db1 EXCEPT !.uq = r.table]
             IN  IF ~r.ok THEN [ok |-> FALSE, db |-> db2]
                 ELSE [ok |-> TRUE,
                       db |-> IF defaultTags # <<>>
                              THEN [db2 EXCEPT !.ut = set_user_tags(@, new_id, defaultTags)]
                              ELSE db2]

RECURSIVE bulk_create_loop(_, _, _, _, _, _)
bulk_create_loop(db, admin_id, emails, defaultQuotas, defaultTags, t) ==
    IF emails = <<>> THEN [ok |-> TRUE, db |-> db]
    ELSE LET r == bulk_create_one(db, admin_id, Head(emails), defaultQuotas,
                                  defaultTags, t)
         IN  IF r.ok
             THEN bulk_create_loop(r.db, admin_id, Tail(emails), defaultQuotas,
                                   defaultTags, t)
             ELSE r

\* POST /api/admin/users/bulk-create: [status, db]
bulk_create_users(db, admin_id, emails, defaultQuotas, defaultTags, t) ==
    IF IsNone(get_user_by_id(db.users, admin_id))
    THEN [status |-> 404, db |-> db]
    ELSE LET r == bulk_create_loop(db, admin_id, emails, defaultQuotas, defaultTags, t)
         IN  [status |-> IF r.ok THEN 200 ELSE 500, db |-> r.db]

\* GET /api/admin/users/{user_id}, GET .../{user_id}/generations: the status
get_user(db, admin_id, user_id) ==
    IF ~can_admin_manage_user(db.ua, admin_id, user_id) THEN 403
    ELSE IF IsNone(get_user_by_id(db.users, user_id)) THEN 404
    ELSE 200

\* GET /api/admin/quotas/{user_id}: the status
get_user_quotas(db, admin_id, user_id) ==
    IF ~can_admin_manage_user(db.ua, admin_id, user_id) THEN 403 ELSE 200

\* PUT /api/admin/users/{user_id} with request.isActive: [status, db]
update_user_endpoint(db, admin_id, user_id, isActive) ==
    IF ~can_admin_manage_user(db.ua, admin_id, user_id)
    THEN [status |-> 403, db |-> db]
    ELSE LET us == update_user(db.users, user_id, None, isActive, None)
         IN  [status |-> IF IsNone(get_user_by_id(us, user_id)) THEN 404 ELSE 200,
              db |-> [db EXCEPT !.users = us]]

\* POST /api/admin/users/{user_id}/reset-password: [status, db]
reset_password(db, admin_id, user_id) ==
    IF ~can_admin_manage_user(db.ua, admin_id, user_id)
    THEN [status |-> 403, db |-> db]
    ELSE [status |-> 200,
          db |-> [db EXCEPT !.users = update_user(@, user_id, None, None, Some(TRUE))]]

\* PUT /api/admin/users/{user_id}/tags: [status, db]
update_user_tags(db, admin_id, user_id, tags) ==
    IF ~can_admin_manage_user(db.ua, admin_id, user_id)
    THEN [status |-> 403, db |-> db]
    ELSE IF IsNone(get_user_by_id(db.users, user_id))
    THEN [status |-> 404, db |-> db]
    ELSE [status |-> 200, db |-> [db EXCEPT !.ut = set_user_tags(@, user_id, tags)]]

\* Requests of the admin endpoints
EmailLists == {<<" U2@X ">>, <<"U1@x", "u2@x">>}
\* The admins that invite users
Inviters == {"a1"}
DefaultQuotasInputs ==
    {<<>>,
     <<<<"image", [type |-> Some("limited"), limit |-> Some(MaxLimit)]>>>>,
     <<<<"video", [limit |-> Some(MaxLimit)]>>, <<"text", [type |-> Some("unlimited")]>>>>,
     <<<<"image", [type |-> Some("weekly"), limit |-> Some(MaxLimit)]>>,
       <<"speech", [type |-> Some("limited"), limit |-> Some(MaxLimit)]>>>>}
TagLists == {<<>>, <<" T1 ", "">>}
ActiveInputs == {None, Some(FALSE)}

\* A completed admin request: permitted is whether the pair (admin, user) was
\* in user_admins when the request came in
AdminCall(op, admin, user, status, request) ==
    [op |-> op, status |-> status, request |-> request,
     permitted |-> op = "bulk_create_users" \/ <<admin, user>> \in user_admins]

\* The database as the requests of this section see it
DB == [users |-> users, ua |-> user_admins, uq |-> user_quotas, ut |-> user_tags]

Commit(db) ==
    /\ users' = db.users
    /\ user_admins' = db.ua
    /\ user_quotas' = db.uq
    /\ user_tags' = db.ut

usersFrame == <<now, calls, genVars, media, files, thumbnails, trackVars>>

InitUsers ==
    /\ user_quotas = [k \in Keys |-> <<>>]
    /\ user_admins = {<<"a1", "u1">>}
    /\ now = 0
    /\ last = AdminCall("none", "a1", "u1", 0, <<>>)
    /\ calls = [k \in Keys |-> None]
    /\ pc = [p \in Procs |-> "idle"]
    /\ req = [p \in Procs |-> NoRequest]
    /\ video_jobs = [j \in JobIds |-> None]
    /\ operations = [j \in JobIds |-> "none"]
    /\ charges = [k \in Keys |-> 0]
    /\ peak = [k \in Keys |-> 0]
    /\ users = [id \in UserIds |->
                   IF id = "u2" THEN None
                   ELSE Some(NewUserRow(IF id = "u1" THEN "u1@x"
                                        ELSE IF id = "a1" THEN "a1@x" ELSE "a2@x",
                                        Some(InitialPassword), id \in Managers,
                                        TRUE))]
    /\ user_tags = [id \in UserIds |-> {}]
    /\ media = <<>>
    /\ files = {}
    /\ thumbnails = {}
    /\ TrackIdle

BulkCreateUsers(a, emails, defaultQuotas, defaultTags) ==
    LET r == bulk_create_users(DB, a, emails, defaultQuotas, defaultTags, now)
    IN  /\ \A i \in 1..Len(emails) :
               IF IsNone(get_user_by_email(users, emails[i]))
               THEN \E id \in UserIds : IsNone(users[id])
               ELSE TRUE
        /\ Commit(r.db)
        /\ last' = AdminCall("bulk_create_users", a, "none", r.status, defaultQuotas)
        /\ UNCHANGED usersFrame

GetUser(a, u) ==
    /\ last' = AdminCall("get_user", a, u, get_user(DB, a, u), <<>>)
    /\ UNCHANGED <<users, user_admins, user_quotas, user_tags, usersFrame>>

GetUserGenerations(a, u) ==
    /\ last' = AdminCall("get_user_generations", a, u, get_user(DB, a, u), <<>>)
    /\ UNCHANGED <<users, user_admins, user_quotas, user_tags, usersFrame>>

GetUserQuotas(a, u) ==
    /\ last' = AdminCall("get_user_quotas", a, u, get_user_quotas(DB, a, u), <<>>)
    /\ UNCHANGED <<users, user_admins, user_quotas, user_tags, usersFrame>>

UpdateUser(a, u, isActive) ==
    LET r == update_user_endpoint(DB, a, u, isActive)
    IN  /\ Commit(r.db)
        /\ last' = AdminCall("update_user", a, u, r.status, <<>>)
        /\ UNCHANGED usersFrame

ResetPassword(a, u) ==
    LET r == reset_password(DB, a, u)
    IN  /\ Commit(r.db)
        /\ last' = AdminCall("reset_password", a, u, r.status, <<>>)
        /\ UNCHANGED usersFrame

UpdateUserTags(a, u, tags) ==
    LET r == update_user_tags(DB, a, u, tags)
    IN  /\ Commit(r.db)
        /\ last' = AdminCall("update_user_tags", a, u, r.status, <<>>)
        /\ UNCHANGED usersFrame

AdminUpdateQuotas(a, u) ==
    LET r == update_user_quotas(user_quotas, user_admins, a, u, "text",
                 [type |-> Some("limited"), limit |-> Some(MaxLimit)], now)
    IN  /\ user_quotas' = r.table
        /\ last' = AdminCall("update_user_quotas", a, u, r.status, <<>>)
        /\ UNCHANGED <<users, user_admins, user_tags, usersFrame>>

AdminResetQuotas(a, u) ==
    LET r == reset_user_quotas(user_quotas, user_admins, a, u, "text", now)
    IN  /\ user_quotas' = r.table
        /\ last' = AdminCall("reset_user_quotas", a, u, r.status, <<>>)
        /\ UNCHANGED <<users, user_admins, user_tags, usersFrame>>

NextUsers ==
    \/ \E a \in Inviters, emails \in EmailLists, dq \in DefaultQuotasInputs,
          dt \in TagLists : BulkCreateUsers(a, emails, dq, dt)
    \/ \E a \in Managers, u \in Users : GetUser(a, u)
    \/ \E a \in Managers, u \in Users : GetUserGenerations(a, u)
    \/ \E a \in Managers, u \in Users : GetUserQuotas(a, u)
    \/ \E a \in Managers, u \in Users, isActive \in ActiveInputs : UpdateUser(a, u, isActive)
    \/ \E a \in Managers, u \in Users : ResetPassword(a, u)
    \/ \E a \in Managers, u \in Users, tags \in TagLists : UpdateUserTags(a, u, tags)
    \/ \E a \in Managers, u \in Users : AdminUpdateQuotas(a, u)
    \/ \E a \in Managers, u \in Users : AdminResetQuotas(a, u)

SpecUsers == InitUsers /\ [][NextUsers]_vars

----------------------------------------------------------------------------
(* Properties of the admin operations *)

\* The quota rows of user u for generation type g
RowsOf(uq, u, g) == IF <<u, g>> \in DOMAIN uq THEN uq[<<u, g>>] ELSE <<>>

\* Every generation type a quota row can be asked for
AnyGenerationType == ValidGenerationTypes \cup {"edit", "speech"}

\* The users the step has created
Created == {u \in Users : IsNone(users[u]) /\ ~IsNone(users'[u])}

\* User u has exactly one row for g, unused, of that policy and limit
OneRow(uq, u, g, quota_type, quota_limit) ==
    /\ Len(RowsOf(uq, u, g)) = 1
    /\ RowsOf(uq, u, g)[1].quota_type = quota_type
    /\ RowsOf(uq, u, g)[1].quota_limit = quota_limit
    /\ RowsOf(uq, u, g)[1].quota_used = 0

\* The generation types custom defaults name
SuppliedTypes(dq) == {dq[i][1] : i \in 1..Len(dq)}

\* C11: a bulk-create that creates a user completes without error (200) and
\* leaves the new user with exactly one unused quota row per default category
\* (image, video, edit) of the default policy and limit, or, with custom
\* defaults (of generation types the table knows), with exactly the supplied
\* categories, policy and limit.
C11_BulkCreateProvisions ==
    [][(last'.op = "bulk_create_users" /\ Created # {}
        /\ SuppliedTypes(last'.request) \subseteq ValidGenerationTypes)
       => /\ last'.status = 200
          /\ \A u \in Created :
                IF last'.request = <<>>
                THEN \A g \in AnyGenerationType :
                        IF g \in DOMAIN DEFAULT_QUOTAS
                        THEN OneRow(user_quotas', u, g, DEFAULT_QUOTAS[g].type,
                                    DEFAULT_QUOTAS[g].limit)
                        ELSE RowsOf(user_quotas', u, g) = <<>>
                ELSE /\ \A i \in 1..Len(last'.request) :
                           OneRow(user_quotas', u, last'.request[i][1],
                                  Val(DictGet(last'.request[i][2], "type", Some("daily"))),
                                  DictGet(last'.request[i][2], "limit", None))
                     /\ \A g \in AnyGenerationType \ SuppliedTypes(last'.request) :
                           RowsOf(user_quotas', u, g) = <<>>]_vars

\* The operations of an admin on one user
UserOperations ==
    {"get_user", "get_user_generations", "get_user_quotas", "update_user",
     "reset_password", "update_user_tags", "update_user_quotas", "reset_user_quotas"}

\* C13: an admin operation on a user succeeds only if the pair (admin, user)
\* is in user_admins; without the pair it answers 403 and leaves the users,
\* their tags, their quotas and the delegation relation as they were.
C13_DelegationRequired ==
    [][last'.op \in UserOperations
       => /\ last'.status = 200 => last'.permitted
          /\ ~last'.permitted =>
                /\ last'.status = 403
                /\ UNCHANGED <<users, user_tags, user_quotas, user_admins>>]_vars

\* An admin without the pair was just refused on a user whose tags, flags and
\* quotas an admin with the pair has changed before.
C13_Witness ==
    /\ last.op = "update_user_tags" /\ last.status = 403 /\ ~last.permitted
    /\ <<"a1", "u1">> \in user_admins /\ <<"a2", "u1">> \notin user_admins
    /\ user_tags["u1"] # {}
    /\ Val(users["u1"]).require_password_reset
    /\ ~Val(users["u1"]).is_active
    /\ user_quotas[<<"u1", "text">>] # <<>>

----------------------------------------------------------------------------
(* The generation endpoints called one request at a time: each handler runs *)
(* from its quota check to its response before the next request starts.     *)

\* The response of an endpoint; denied: its check_quota refused the request
Response(ep, user, status, detail, denied) ==
    [ep |-> ep, user |-> user, status |-> status, detail |-> detail,
     denied |-> denied]

\* What the provider call of a handler can do
Outcomes == {"ok", "error"}

\* A checked generation endpoint from check_quota to its response:
\* [status, detail, denied, table]
serve(uq, ep, user_id, outcome, t) ==
    LET c == EndpointCategory(ep)
        r == check_quota(uq, user_id, c, t)
        inc == increment_quota(r.table, user_id, c, t)
    IN  IF ~r.allowed
        THEN [status |-> DeniedStatus(ep), detail |-> r.message, denied |-> TRUE,
              table |-> r.table]
        ELSE IF outcome = "error"
        THEN [status |-> 500, detail |-> None, denied |-> FALSE, table |-> r.table]
        ELSE IF ep \in VideoEndpoints
        THEN [status |-> 200, detail |-> None, denied |-> FALSE, table |-> r.table]
        ELSE IF ep = "generate_speech" /\ "audio" \notin ValidMediaTypes
        THEN [status |-> 500, detail |-> None, denied |-> FALSE, table |-> r.table]
        ELSE IF inc.ok
        THEN [status |-> 200, detail |-> None, denied |-> FALSE, table |-> inc.table]
        ELSE [status |-> 500, detail |-> None, denied |-> FALSE, table |-> r.table]

serveFrame == <<user_admins, now, calls, genVars, storeVars, trackVars>>

InitServe ==
    /\ \E L1 \in 0..MaxLimit, L2 \in 0..MaxLimit :
          user_quotas = [k \in Keys |-> IF k[1] = "u1" THEN Provisioned("u1", L1)[k]
                                        ELSE Provisioned("u2", L2)[k]]
    /\ user_admins = {<<"a1", "u1">>}
    /\ now = 0
    /\ last = Response("none", "u1", 0, None, FALSE)
    /\ calls = [k \in Keys |-> None]
    /\ pc = [p \in Procs |-> "idle"]
    /\ req = [p \in Procs |-> NoRequest]
    /\ video_jobs = [j \in JobIds |-> None]
    /\ operations = [j \in JobIds |-> "none"]
    /\ charges = [k \in Keys |-> 0]
    /\ peak = [k \in Keys |-> 0]
    /\ StoreIdle
    /\ TrackIdle

Serve(ep, u, outcome) ==
    LET r == serve(user_quotas, ep, u, outcome, now)
    IN  /\ user_quotas' = r.table
        /\ last' = Response(ep, u, r.status, r.detail, r.denied)
        /\ UNCHANGED serveFrame

\* check_video_status finding the video of a started job: the one place the
\* video quota is charged
ServeVideoStatus(u) ==
    LET r == increment_quota(user_quotas, u, "video", now)
    IN  /\ quota_used_below(get_quota(user_quotas, u, "video"), MaxUsed)
        /\ user_quotas' = r.table
        /\ last' = Response("check_video_status", u, IF r.ok THEN 200 ELSE 500,
                            None, FALSE)
        /\ UNCHANGED serveFrame

NextServe ==
    \/ \E ep \in CheckedEndpoints, u \in Users, outcome \in Outcomes :
           Serve(ep, u, outcome)
    \/ \E u \in Users : ServeVideoStatus(u)

SpecServe == InitServe /\ [][NextServe]_vars

\* C12: whenever check_quota refuses a generation request, the endpoint
\* answers 429 and its message carries the used and limit values of the
\* caller's quota, for video, speech, text and chat alike.
C12_DenialIs429 ==
    last.denied =>
        /\ last.status = 429
        /\ ~IsNone(last.detail)
        /\ LET k == <<last.user, EndpointCategory(last.ep)>>
           IN  /\ HasQuota(k)
               /\ Val(last.detail).used = QuotaOf(k).quota_used
               /\ Some(Val(last.detail).limit) = QuotaOf(k).quota_limit

----------------------------------------------------------------------------
(* The media store: save_media step by step (file write, then INSERT), and  *)
(* the media router's requests, each from its fetch to its response.        *)

\* The largest page size a list request asks for
MaxPageSize == 2

\* save_media calls: <<media_type, base64_data, metadata>>
SaveInputs ==
    {<<"image", "QQ==",
       [userId |-> "u1", mimeType |-> "image/jpeg", prompt |-> "cat",
        model |-> "imagen", details |-> Some([style |-> "photo"]),
        ipAddress |-> Some("10.0.0.1")]>>,
     <<"video", "QkI=", [userId |-> "u2"]>>,
     <<"image", "QQ==", [userId |-> "a1", details |-> Some(<<>>)]>>,
     <<"audio", "QQ==",
       [userId |-> "u1", mimeType |-> "audio/wav",
        details |-> Some([voice |-> "Kore"])]>>,
     <<"image", "not base64", [userId |-> "u1"]>>}

\* The process that runs save_media
Savers == {"p1"}

\* The users that send requests to the media router
MediaCallers == {"u1", "u2", "a1"}

\* The page query parameter of a list request
Pages == 1..(Cardinality(MediaIds) + 1)

\* The type query parameter of a list request
TypeFilters == {None, Some("image"), Some("video")}

\* The last call on the media store and its outcome
MediaCall(op, id, status, request) ==
    [op |-> op, id |-> id, status |-> status, request |-> request]

\* Media ids no row, no file and no save in progress carries
UnusedMediaIds ==
    {id \in MediaIds :
        /\ \A i \in 1..Len(media) : media[i].id # id
        /\ \A f \in files : f.name[1] # id
        /\ \A p \in Procs : pc[p] = "insert" => req[p].media_metadata.id # id}

mediaFrame == <<user_quotas, user_admins, calls, video_jobs, operations, charges,
                peak, users, user_tags, trackVars>>

InitMedia ==
    /\ user_quotas = [k \in Keys |-> <<>>]
    /\ user_admins = {<<"a1", "u1">>}
    /\ now = 0
    /\ last = MediaCall("none", "none", 0, <<>>)
    /\ calls = [k \in Keys |-> None]
    /\ pc = [p \in Procs |-> "idle"]
    /\ req = [p \in Procs |-> NoRequest]
    /\ video_jobs = [j \in JobIds |-> None]
    /\ operations = [j \in JobIds |-> "none"]
    /\ charges = [k \in Keys |-> 0]
    /\ peak = [k \in Keys |-> 0]
    /\ StoreIdle
    /\ TrackIdle

\* save_media from its uuid4 to file_path.write_bytes
SaveWrite(p, input) ==
    /\ pc[p] = "idle"
    /\ UnusedMediaIds # {}
    /\ LET media_id == CHOOSE id \in UnusedMediaIds : TRUE
           r == save_media_write(files, media_id, input[1], input[2], input[3], now)
       IN  /\ files' = r.files
           /\ IF r.ok
              THEN /\ pc' = [pc EXCEPT ![p] = "insert"]
                   /\ req' = [req EXCEPT ![p] =
                          [ep |-> "save_media", input |-> input,
                           media_metadata |-> Val(r.media_metadata)]]
                   /\ UNCHANGED last
              ELSE /\ UNCHANGED <<pc, req>>
                   /\ last' = MediaCall("save_media", "none", "raised", input)
           /\ now' = IF r.ok THEN now + 1 ELSE now
    /\ UNCHANGED <<media, thumbnails, mediaFrame>>

\* save_media, its INSERT and commit
SaveInsert(p) ==
    /\ pc[p] = "insert"
    /\ LET r == save_media_insert(media, req[p].media_metadata)
       IN  /\ media' = r.media
           /\ last' = MediaCall("save_media", req[p].media_metadata.id,
                                IF r.ok THEN "ok" ELSE "raised", req[p].input)
    /\ pc' = [pc EXCEPT ![p] = "idle"]
    /\ req' = [req EXCEPT ![p] = NoRequest]
    /\ UNCHANGED <<now, files, thumbnails, mediaFrame>>

\* The process dies between the file write and the INSERT
SaveCrash(p) ==
    /\ pc[p] = "insert"
    /\ pc' = [pc EXCEPT ![p] = "idle"]
    /\ req' = [req EXCEPT ![p] = NoRequest]
    /\ UNCHANGED <<now, last, media, files, thumbnails, mediaFrame>>

GetMedia(caller, media_id) ==
    /\ last' = MediaCall("get_media", "none",
                         fetch_status(media, files, users, user_admins, caller,
                                      media_id), <<>>)
    /\ UNCHANGED <<now, pc, req, media, files, thumbnails, mediaFrame>>

GetMediaThumbnail(caller, media_id) ==
    LET r == get_media_thumbnail(media, files, thumbnails, users, user_admins,
                                 caller, media_id)
    IN  /\ thumbnails' = r.thumbnails
        /\ last' = MediaCall("get_media_thumbnail", "none", r.status, <<>>)
        /\ UNCHANGED <<now, pc, req, media, files, mediaFrame>>

DeleteMedia(caller, media_id) ==
    LET r == delete_media_endpoint(media, files, thumbnails, users, user_admins,
                                   caller, media_id)
    IN  /\ media' = r.media
        /\ files' = r.files
        /\ thumbnails' = r.thumbnails
        /\ last' = MediaCall("delete_media", "none", r.status, <<>>)
        /\ UNCHANGED <<now, pc, req, mediaFrame>>

ListMedia(caller, type, page, limit) ==
    /\ last' = MediaCall("list_media", "none",
                         list_media(media, users, user_admins, caller, type,
                                    page, limit).status, <<>>)
    /\ UNCHANGED <<now, pc, req, media, files, thumbnails, mediaFrame>>

GetStats(caller) ==
    /\ last' = MediaCall("get_stats", "none",
                         get_stats_endpoint(media, users, caller).status, <<>>)
    /\ UNCHANGED <<now, pc, req, media, files, thumbnails, mediaFrame>>

NextMedia ==
    \/ \E p \in Savers, input \in SaveInputs : SaveWrite(p, input)
    \/ \E p \in Savers : SaveInsert(p)
    \/ \E p \in Savers : SaveCrash(p)
    \/ \E caller \in MediaCallers, media_id \in MediaIds : GetMedia(caller, media_id)
    \/ \E caller \in MediaCallers, media_id \in MediaIds :
           GetMediaThumbnail(caller, media_id)
    \/ \E caller \in MediaCallers, media_id \in MediaIds :
           DeleteMedia(caller, media_id)
    \/ \E caller \in MediaCallers, type \in TypeFilters, limit \in 1..MaxPageSize,
          page \in Pages : ListMedia(caller, type, page, limit)
    \/ \E caller \in MediaCallers : GetStats(caller)

SpecMedia == InitMedia /\ [][NextMedia]_vars

----------------------------------------------------------------------------
(* Properties of the media store *)

\* The owners whose media a caller may see: an admin's managed users and the
\* admin, a regular user's own id
Scope(caller) ==
    IF is_admin(users, caller)
    THEN {u \in UserIds : <<caller, u>> \in user_admins} \cup {caller}
    ELSE {caller}

\* The rows in a caller's scope that pass the type filter
InScope(caller, type) ==
    SelectSeq(media, LAMBDA r :
        /\ r.user_id \in Scope(caller)
        /\ IsNone(type) \/ r.type = Val(type))

\* The ids of the rows of a sequence
IdsOf(rows) == {rows[i].id : i \in 1..Len(rows)}

\* The caller owns the item or is an admin delegated to manage its owner
MayAccess(caller, owner) ==
    \/ owner = caller
    \/ is_admin(users, caller) /\ <<caller, owner>> \in user_admins

\* C14: get, delete and thumbnail decide alike for every caller and item:
\* 200 iff the caller owns the item or is an admin delegated to its owner,
\* else 403 with the row, the file and the cached thumbnail unchanged.
C14_SameAccessDecision ==
    \A caller \in MediaCallers : \A i \in 1..Len(media) :
        LET id == media[i].id
            expected == IF MayAccess(caller, media[i].user_id) THEN 200 ELSE 403
            got == fetch_status(media, files, users, user_admins, caller, id)
            thumb == get_media_thumbnail(media, files, thumbnails, users,
                                         user_admins, caller, id)
            del == delete_media_endpoint(media, files, thumbnails, users,
                                         user_admins, caller, id)
        IN  /\ got = expected
            /\ thumb.status = expected
            /\ del.status = expected
            /\ expected = 403 =>
                  /\ thumb.thumbnails = thumbnails
                  /\ del.media = media /\ del.files = files
                  /\ del.thumbnails = thumbnails

RECURSIVE PagesConcat(_, _, _, _, _)
PagesConcat(caller, type, limit, first, lastPage) ==
    IF first > lastPage THEN <<>>
    ELSE list_media(media, users, user_admins, caller, type, first, limit).media
         \o PagesConcat(caller, type, limit, first + 1, lastPage)

C17_StatsScoped ==
    \A caller \in MediaCallers :
        LET r == get_stats_endpoint(media, users, caller)
        IN  /\ r.status = 200
            /\ r.stats.totalFiles = Len(InScope(caller, None))

\* C18: after a save_media that returned, get_media of the new id returns the
\* payload byte for byte and the metadata fields that were supplied.
C18_SaveGetRoundTrip ==
    (last.op = "save_media" /\ last.status = "ok") =>
        LET g == get_media(media, files, last.id)
            supplied == last.request[3]
        IN  /\ ~g.raised
            /\ ~IsNone(g.result)
            /\ Val(g.result).data = b64decode(last.request[2]).bytes
            /\ Val(g.result).metadata.type = last.request[1]
            /\ Val(g.result).metadata.fileSize = Len(b64decode(last.request[2]).bytes)
            /\ \A key \in DOMAIN supplied :
                  Val(g.result).metadata[key] = supplied[key]

\* The directory a media type is stored under
DirOf(media_type) ==
    CASE media_type = "video" -> "videos"
      [] media_type = "image" -> "images"
      [] OTHER -> "audio"

\* C19: save_media of an image, a video or an audio payload that decodes
\* returns, with the file under the directory of its type named by its MIME
\* type's extension, its row inserted and get_media finding the item.
C19_SaveAcceptsTypes ==
    (last.op = "save_media" /\ last.request[1] \in {"image", "video", "audio"}
        /\ b64decode(last.request[2]).ok) =>
        /\ last.status = "ok"
        /\ ~IsNone(media_row(media, last.id))
        /\ \E f \in files :
              /\ f.dir = DirOf(last.request[1])
              /\ f.name = <<last.id, _get_extension(MimeTypeOf(last.request[1],
                                                              last.request[3]))>>
        /\ ~get_media(media, files, last.id).raised
        /\ ~IsNone(get_media(media, files, last.id).result)

\* Every row has exactly one file at the path of its type and filename
RowsHaveFiles ==
    \A i \in 1..Len(media) :
        Cardinality({f \in files :
            /\ f.dir = file_path(media[i].type, media[i].filename).dir
            /\ f.name = media[i].filename
            /\ Len(f.data) = media[i].file_size}) = 1

\* A row that appears has its file written already
InsertAfterWrite ==
    \A i \in 1..Len(media') :
        media'[i].id \notin IdsOf(media) =>
            \E f \in files : f.name = media'[i].filename

FileGone(fs, row) ==
    ~\E f \in fs : f.dir = file_path(row.type, row.filename).dir
                   /\ f.name = row.filename

\* C21: a delete requested by the owner of an item or by an admin delegated
\* to its owner succeeds, whether or not the backing file still exists, and
\* leaves neither the file nor the row nor a cached thumbnail of the item.
C21_DeleteRemoves ==
    \A caller \in MediaCallers : \A i \in 1..Len(media) :
        MayAccess(caller, media[i].user_id) =>
            LET del == delete_media_endpoint(media, files, thumbnails, users,
                                             user_admins, caller, media[i].id)
            IN  /\ del.status = 200
                /\ media[i].id \notin IdsOf(del.media)
                /\ FileGone(del.files, media[i])
                /\ media[i].id \notin del.thumbnails

WithoutFileOf(fs, row) ==
    {f \in fs : ~(/\ f.dir = file_path(row.type, row.filename).dir
                  /\ f.name = file_path(row.type, row.filename).name)}

\* C40: get_media of an item whose row exists and whose file is missing
\* returns None without raising, and the router answers 404 to every caller;
\* the media table is not written (get_media has no statement that writes).
C40_MissingFileIsNotFound ==
    \A i \in 1..Len(media) :
        LET fs == WithoutFileOf(files, media[i])
            got == get_media(media, fs, media[i].id)
        IN  /\ ~got.raised
            /\ IsNone(got.result)
            /\ \A caller \in MediaCallers :
                   fetch_status(media, fs, users, user_admins, caller,
                                media[i].id) = 404

----------------------------------------------------------------------------
(* VideoQueue *)

\* dict.get(key): the value when the key is there, None otherwise
dict_get(d, key) == IF key \in DOMAIN d THEN Some(d[key]) ELSE None

\* a or b, for values that are None or a string
Or(a, b) == IF IsNone(a) \/ a = Some("") THEN b ELSE a

\* The rows an id, an external job id or an operation id selects, in rowid order
matching_jobs(rows, job_id) ==
    SelectSeq(rows, LAMBDA r : \/ r.id = job_id
                               \/ r.job_id = job_id
                               \/ r.operation_id = Some(job_id))

\* A resolution that looks at the internal id only
_resolve_job_id_by_id(rows, job_id) ==
    LET found == SelectSeq(rows, LAMBDA r : r.id = job_id)
    IN  IF found = <<>> THEN None ELSE Some(found[1].id)

\* _resolve_job_id(job_id): SELECT id ... WHERE id = ? OR job_id = ? OR
\* operation_id = ?, fetchone
_resolve_job_id(rows, job_id) ==
    LET found == matching_jobs(rows, job_id)
    IN  IF found = <<>> THEN None ELSE Some(found[1].id)

\* SELECT * FROM video_jobs WHERE id = ?, fetchone
job_row(rows, internal_id) ==
    LET found == SelectSeq(rows, LAMBDA r : r.id = internal_id)
    IN  IF found = <<>> THEN None ELSE Some(found[1])

\* _row_to_job(row): the job dict of a row; completedAt is a key of it only
\* when the row has a completed_at
_row_to_job(row) ==
    LET job == [id |-> row.id,
                jobId |-> IF row.job_id # "" THEN row.job_id ELSE row.id,
                operationId |-> row.operation_id,
                userId |-> row.user_id,
                status |-> row.status,
                progress |-> row.progress,
                error |-> row.error,
                videoUrl |-> row.video_url,
                mediaId |-> row.media_id,
                createdAt |-> row.created_at,
                updatedAt |-> row.updated_at]
    IN  IF IsNone(row.completed_at) THEN job
        ELSE job @@ [completedAt |-> Val(row.completed_at)]

\* The row create_job(data) writes, uuid being the uuid4 it draws
new_job_row(data, uuid, t) ==
    LET internal_id == Val(Or(dict_get(data, "id"),
                              Or(dict_get(data, "jobId"), Some(uuid))))
        external_job_id == Val(Or(dict_get(data, "jobId"), Some(internal_id)))
        given == dict_get(data, "operationId")
        operation_id ==
            IF /\ Or(given, None) = None
               /\ Or(dict_get(data, "jobId"), None) # None
               /\ data.jobId # internal_id
            THEN Some(data.jobId) ELSE given
    IN  [id |-> internal_id,
         job_id |-> external_job_id,
         operation_id |-> operation_id,
         user_id |-> DictGet(data, "userId", "anonymous"),
         status |-> DictGet(data, "status", "pending"),
         progress |-> DictGet(data, "progress", 0),
         error |-> dict_get(data, "error"),
         video_url |-> dict_get(data, "videoUrl"),
         media_id |-> dict_get(data, "mediaId"),
         created_at |-> t,
         updated_at |-> t,
         completed_at |-> None]

\* A create_job whose INSERT does not replace the row of the same id
create_job_insert(rows, data, uuid, t) ==
    LET row == new_job_row(data, uuid, t)
    IN  [rows |-> Append(rows, row), job |-> _row_to_job(row)]

\* create_job(data): INSERT OR REPLACE INTO video_jobs, then the job of the
\* row with the internal id
create_job(rows, data, uuid, t) ==
    LET row == new_job_row(data, uuid, t)
        kept == SelectSeq(rows, LAMBDA r : r.id # row.id)
    IN  [rows |-> Append(kept, row), job |-> _row_to_job(row)]

\* get_job(job_id)
get_job(rows, job_id) ==
    LET internal_id == _resolve_job_id(rows, job_id)
    IN  IF IsNone(internal_id) THEN None
        ELSE LET row == job_row(rows, Val(internal_id))
             IN  IF IsNone(row) THEN None ELSE Some(_row_to_job(Val(row)))

\* The columns update_job(job_id, updates) sets from the keys of updates
UpdatableKeys == {"status", "error", "videoUrl", "mediaId", "progress"}

\* The row after the UPDATE of update_job, without the completed_at column
updated_columns(row, updates, t) ==
    [row EXCEPT !.status = DictGet(updates, "status", @),
                !.error = IF "error" \in DOMAIN updates
                          THEN Some(updates.error) ELSE @,
                !.video_url = IF "videoUrl" \in DOMAIN updates
                              THEN Some(updates.videoUrl) ELSE @,
                !.media_id = IF "mediaId" \in DOMAIN updates
                             THEN Some(updates.mediaId) ELSE @,
                !.progress = DictGet(updates, "progress", @),
                !.updated_at = t]

\* An update_job that leaves completed_at alone
update_job_unstamped(rows, job_id, updates, t) ==
    LET internal_id == _resolve_job_id(rows, job_id)
    IN  IF IsNone(internal_id) THEN [rows |-> rows, job |-> None]
        ELSE IF DOMAIN updates \cap UpdatableKeys = {}
        THEN [rows |-> rows, job |-> get_job(rows, Val(internal_id))]
        ELSE LET after == [i \in 1..Len(rows) |->
                              IF rows[i].id = Val(internal_id)
                              THEN updated_columns(rows[i], updates, t)
                              ELSE rows[i]]
             IN  [rows |-> after,
                  job |-> Some(_row_to_job(Val(job_row(after, Val(internal_id)))))]

\* update_job(job_id, updates): nothing when no row is resolved; the job
\* unchanged when updates names no column; otherwise the UPDATE, which stamps
\* completed_at when the status set is completed and clears it when updates
\* carries completedAt = None
update_job(rows, job_id, updates, t) ==
    LET internal_id == _resolve_job_id(rows, job_id)
    IN  IF IsNone(internal_id) THEN [rows |-> rows, job |-> None]
        ELSE IF DOMAIN updates \cap UpdatableKeys = {}
        THEN [rows |-> rows, job |-> get_job(rows, Val(internal_id))]
        ELSE LET set(row) ==
                     LET cols == updated_columns(row, updates, t)
                     IN  IF dict_get(updates, "status") = Some("completed")
                         THEN [cols EXCEPT !.completed_at = Some(t)]
                         ELSE IF "completedAt" \in DOMAIN updates
                         THEN [cols EXCEPT !.completed_at = None]
                         ELSE cols
                 after == [i \in 1..Len(rows) |->
                              IF rows[i].id = Val(internal_id)
                              THEN set(rows[i]) ELSE rows[i]]
             IN  [rows |-> after,
                  job |-> Some(_row_to_job(Val(job_row(after, Val(internal_id)))))]

----------------------------------------------------------------------------
(* The job queue under its operations *)

\* The uuid4 values create_job can draw
JobUuids == {"g1"}

\* An unused uuid4
FreshJobId(rows) == CHOOSE g \in JobUuids : \A i \in 1..Len(rows) : rows[i].id # g

\* The dicts create_job is called with: the one generate_video builds around
\* the name of the provider's operation, one that carries an internal id, an
\* external job id and an operation id of its own, and one that names no id
CreateInputs ==
    { [userId |-> "u1", status |-> "processing", progress |-> 0, jobId |-> "op1"],
      [userId |-> "u2", id |-> "j1", jobId |-> "op2", operationId |-> "x1"],
      [userId |-> "u1"] }

\* The dicts update_job is called with: the three check_video_status builds
\* and one that names no column
JobUpdates ==
    { [status |-> "processing", progress |-> 50],
      [status |-> "failed", error |-> "quota exceeded"],
      [status |-> "completed", progress |-> 100, videoUrl |-> "data:video/mp4",
       mediaId |-> "m1"],
      [completedAt |-> None] }

\* The ids a job is asked for by
JobAliases == {"op1", "j1", "op2", "x1", "g1", "op9"}

\* The ids update_job is asked by: the operation name check_video_status
\* passes, an operation id, and a name no job has
UpdateAliases == {"op1", "x1", "op9"}

QueueCall(op, alias, job, request, existed) ==
    [op |-> op, id |-> alias, job |-> job, request |-> request,
     existed |-> existed]

queueFrame == <<user_quotas, user_admins, now, calls, genVars, storeVars,
                user_sessions, issued, schema, limiter>>

InitQueue ==
    /\ user_quotas = [k \in Keys |-> <<>>]
    /\ user_admins = {<<"a1", "u1">>}
    /\ now = 0
    /\ last = QueueCall("none", "none", None, <<>>, FALSE)
    /\ calls = [k \in Keys |-> None]
    /\ pc = [p \in Procs |-> "idle"]
    /\ req = [p \in Procs |-> NoRequest]
    /\ video_jobs = [j \in JobIds |-> None]
    /\ operations = [j \in JobIds |-> "none"]
    /\ charges = [k \in Keys |-> 0]
    /\ peak = [k \in Keys |-> 0]
    /\ StoreIdle
    /\ TrackIdle

CreateJobCall(data) ==
    /\ DOMAIN data \cap {"id", "jobId"} = {} =>
           \E g \in JobUuids : \A i \in 1..Len(queue) : queue[i].id # g
    /\ LET uuid == IF DOMAIN data \cap {"id", "jobId"} = {}
                   THEN FreshJobId(queue) ELSE "g1"
           r == create_job(queue, data, uuid, now)
       IN  /\ queue' = r.rows
           /\ last' = QueueCall("create_job", r.job.id, Some(r.job), data,
                                ~IsNone(job_row(queue, r.job.id)))
    /\ UNCHANGED queueFrame

UpdateJobCall(job_id, updates) ==
    LET r == update_job(queue, job_id, updates, now)
    IN  /\ queue' = r.rows
        /\ last' = QueueCall("update_job", job_id, r.job, updates,
                             ~IsNone(_resolve_job_id(queue, job_id)))
        /\ UNCHANGED queueFrame

GetJobCall(job_id) ==
    /\ last' = QueueCall("get_job", job_id, get_job(queue, job_id), <<>>,
                         ~IsNone(_resolve_job_id(queue, job_id)))
    /\ UNCHANGED <<queue, queueFrame>>

NextQueue ==
    \/ \E data \in CreateInputs : CreateJobCall(data)
    \/ \E job_id \in UpdateAliases, updates \in JobUpdates : UpdateJobCall(job_id, updates)
    \/ \E job_id \in JobAliases : GetJobCall(job_id)

SpecQueue == InitQueue /\ [][NextQueue]_vars

\* The place of a status on pending -> processing -> {completed, failed}
StatusRank(status) ==
    CASE status = "pending" -> 0
      [] status = "processing" -> 1
      [] OTHER -> 2

\* A step of a job from one status to another that stays or moves forward
MovesForward(before, after) ==
    /\ StatusRank(before) <= StatusRank(after)
    /\ before \in {"completed", "failed"} => after = before

\* C24: over any sequence of create_job, update_job and status polls, the
\* status of a job only moves forward along pending -> processing ->
\* {completed, failed}, and a completed or failed job keeps its status.
C24_StatusMovesForward ==
    [][\A i \in 1..Len(queue) : \A j \in 1..Len(queue') :
           queue[i].id = queue'[j].id =>
               MovesForward(queue[i].status, queue'[j].status)]_vars

\* The fields of a row that create_job takes from its argument
JobFields(row) ==
    [status |-> row.status, progress |-> row.progress, error |-> row.error,
     video_url |-> row.video_url, media_id |-> row.media_id,
     completed_at |-> row.completed_at, job_id |-> row.job_id,
     operation_id |-> row.operation_id, user_id |-> row.user_id]

\* C25: create_job called twice with the same fields, which name the job by
\* id or jobId, leaves one row of that id, with the status, progress, result
\* pointers and completion state the first call left, and the other rows as
\* they were.
C25_CreateIsUpsert ==
    \A data \in CreateInputs :
        DOMAIN data \cap {"id", "jobId"} # {} =>
            LET first == create_job(queue, data, "g1", now)
                second == create_job(first.rows, data, "g1", now + 1)
                id == first.job.id
            IN  /\ Len(SelectSeq(second.rows, LAMBDA r : r.id = id)) = 1
                /\ JobFields(Val(job_row(second.rows, id)))
                       = JobFields(Val(job_row(first.rows, id)))
                /\ second.job.id = id
                /\ SelectSeq(second.rows, LAMBDA r : r.id # id)
                       = SelectSeq(queue, LAMBDA r : r.id # id)

\* create_job has just replaced the row of a job that had completed, next to
\* another job
C25_Witness ==
    /\ last.op = "create_job"
    /\ last.existed
    /\ Len(queue) >= 2
    /\ \E i \in 1..Len(queue) : queue[i].status = "completed"

\* The ids of a row: its internal id, its external job id, its operation id
AliasesOf(row) ==
    {row.id, row.job_id}
        \cup (IF IsNone(row.operation_id) THEN {} ELSE {Val(row.operation_id)})

\* C26: get_job and update_job called with the internal id, the external job
\* id or the operation id of a job resolve to the row of that job, and called
\* with an id that matches no row they find nothing and change nothing.
C26_AliasesResolve ==
    /\ \A i \in 1..Len(queue) : \A alias \in AliasesOf(queue[i]) :
          /\ get_job(queue, alias) = Some(_row_to_job(queue[i]))
          /\ \A updates \in JobUpdates :
                LET r == update_job(queue, alias, updates, now)
                IN  /\ r = update_job(queue, queue[i].id, updates, now)
                    /\ ~IsNone(r.job) /\ Val(r.job).id = queue[i].id
                    /\ \A j \in 1..Len(queue) : j # i => r.rows[j] = queue[j]
    /\ \A alias \in JobAliases :
          (\A i \in 1..Len(queue) : alias \notin AliasesOf(queue[i])) =>
              /\ get_job(queue, alias) = None
              /\ \A updates \in JobUpdates :
                    update_job(queue, alias, updates, now)
                        = [rows |-> queue, job |-> None]

\* get_job has just found, by its operation id, a job that has an internal
\* id, an external job id and an operation id that all differ
C26_Witness ==
    /\ last.op = "get_job"
    /\ ~IsNone(last.job)
    /\ Val(last.job).operationId = Some(last.id)
    /\ Cardinality({Val(last.job).id, Val(last.job).jobId, last.id}) = 3
    /\ Len(queue) >= 2

\* C27: update_job with status completed, through any id of a job, leaves
\* the job with status completed and a completion timestamp.
C27_CompletedIsStamped ==
    \A i \in 1..Len(queue) : \A alias \in AliasesOf(queue[i]) :
        \A updates \in JobUpdates :
            dict_get(updates, "status") = Some("completed") =>
                LET r == update_job(queue, alias, updates, now)
                    row == Val(job_row(r.rows, queue[i].id))
                IN  /\ row.status = "completed"
                    /\ row.completed_at = Some(now)
                    /\ "completedAt" \in DOMAIN Val(r.job)
                    /\ Val(r.job).status = "completed"

\* update_job has just completed a job through its operation id and returned
\* it with a completion timestamp
C27_Witness ==
    /\ last.op = "update_job"
    /\ last.id = "x1"
    /\ dict_get(last.request, "status") = Some("completed")
    /\ ~IsNone(last.job)
    /\ Val(last.job).id # last.id
    /\ "completedAt" \in DOMAIN Val(last.job)

----------------------------------------------------------------------------
(* _SessionManager and the auth router *)

SessionTtl == 1    \* ttl_hours = 24: one day
MaxSessions == 2   \* no login is started after MaxSessions tokens were issued
MaxNow == 3        \* the clock is not advanced past MaxNow

\* The row of a token, Optional (token is the primary key)
session_row(sessions, token) ==
    LET found == SelectSeq(sessions, LAMBDA r : r.token = token)
    IN  IF found = <<>> THEN None ELSE Some(found[1])

\* DELETE FROM user_sessions WHERE token = ?
delete_session(sessions, token) == SelectSeq(sessions, LAMBDA r : r.token # token)

\* create_session(user, user_id, ttl_hours=24): the table with the row of a
\* new token
create_session(sessions, token, user_id, t) ==
    Append(sessions, [token |-> token, user_id |-> user_id, created_at |-> t,
                      expires_at |-> t + SessionTtl, last_activity_at |-> t])

\* LoginUser(username, displayName, roles) of a users row
LoginUser(row) ==
    [username |-> row.email, displayName |-> row.email,
     roles |-> IF row.is_admin THEN <<"admin">> ELSE <<>>]

\* A get_user that does not look at expires_at
session_get_user_unexpiring(sessions, us, token, t) ==
    LET s == session_row(sessions, token)
    IN  IF IsNone(s) \/ IsNone(get_user_by_id(us, Val(s).user_id))
        THEN [user |-> None, sessions |-> sessions]
        ELSE IF ~Val(get_user_by_id(us, Val(s).user_id)).is_active
        THEN [user |-> None, sessions |-> sessions]
        ELSE [user |-> Some(LoginUser(Val(get_user_by_id(us, Val(s).user_id)))),
              sessions |-> [i \in 1..Len(sessions) |->
                               IF sessions[i].token = token
                               THEN [sessions[i] EXCEPT !.last_activity_at = t]
                               ELSE sessions[i]]]

\* _SessionManager.get_user(token): the row of the token joined to its user;
\* None without one; an expired row is deleted and gives None; an inactive
\* user gives None; otherwise last_activity_at is set and the user returned
session_get_user(sessions, us, token, t) ==
    LET s == session_row(sessions, token)
    IN  IF IsNone(s) \/ IsNone(get_user_by_id(us, Val(s).user_id))
        THEN [user |-> None, sessions |-> sessions]
        ELSE IF Val(s).expires_at < t
        THEN [user |-> None, sessions |-> delete_session(sessions, token)]
        ELSE IF ~Val(get_user_by_id(us, Val(s).user_id)).is_active
        THEN [user |-> None, sessions |-> sessions]
        ELSE [user |-> Some(LoginUser(Val(get_user_by_id(us, Val(s).user_id)))),
              sessions |-> [i \in 1..Len(sessions) |->
                               IF sessions[i].token = token
                               THEN [sessions[i] EXCEPT !.last_activity_at = t]
                               ELSE sessions[i]]]

\* _SessionManager.invalidate(token)
invalidate(sessions, token) == delete_session(sessions, token)

\* _SessionManager.cleanup_expired_sessions()
cleanup_expired_sessions(sessions, t) ==
    SelectSeq(sessions, LAMBDA r : ~(r.expires_at < t))

\* get_current_user with "Authorization: Bearer <token>": 401 when get_user
\* gives no user
get_current_user(sessions, us, token, t) ==
    LET r == session_get_user(sessions, us, token, t)
    IN  [status |-> IF IsNone(r.user) THEN 401 ELSE 200,
         user |-> r.user, sessions |-> r.sessions]

\* A login that does not verify the password
login_unverified(sessions, us, email, password, token, t) ==
    LET id == get_user_by_email(us, email)
        refused(status) ==
            [status |-> status, token |-> None, sessions |-> sessions,
             requirePasswordSetup |-> status = 200]
    IN  IF IsNone(id) THEN refused(401)
        ELSE LET user == Val(us[Val(id)])
             IN  IF ~user.is_active THEN refused(403)
                 ELSE IF IsNone(user.password_hash) THEN refused(200)
                 ELSE IF user.require_password_reset THEN refused(200)
                 ELSE [status |-> 200, token |-> Some(token),
                       sessions |-> create_session(sessions, token, Val(id), t),
                       requirePasswordSetup |-> FALSE]

\* POST /login: 401 for an unknown email or a wrong password, 403 for a
\* deactivated account, an empty token with requirePasswordSetup while a
\* password has to be set, otherwise a session of the user and its token
login(sessions, us, email, password, token, t) ==
    LET id == get_user_by_email(us, email)
        refused(status) ==
            [status |-> status, token |-> None, sessions |-> sessions,
             requirePasswordSetup |-> status = 200]
    IN  IF IsNone(id) THEN refused(401)
        ELSE LET user == Val(us[Val(id)])
             IN  IF ~user.is_active THEN refused(403)
                 ELSE IF IsNone(user.password_hash) THEN refused(200)
                 ELSE IF ~verify_password(password, Val(user.password_hash))
                 THEN refused(401)
                 ELSE IF user.require_password_reset THEN refused(200)
                 ELSE [status |-> 200, token |-> Some(token),
                       sessions |-> create_session(sessions, token, Val(id), t),
                       requirePasswordSetup |-> FALSE]

\* POST /logout: the get_current_user dependency, then a success response
logout(sessions, us, token, t) ==
    get_current_user(sessions, us, token, t)

----------------------------------------------------------------------------
(* Sessions under logins, requests, deactivation and the clock *)

\* The emails a login is tried with
LoginEmails == {"u1@x", "a1@x", "nobody@x"}

\* The passwords a login is tried with
LoginPasswords == {"Passw0rd1", "Secret22x"}

\* The bearer tokens a request carries: 0 was never issued
BearerTokens == 0..MaxSessions

\* The accounts an admin deactivates and reactivates
Deactivated == {"u1"}

AuthCall(op, token, status, user) ==
    [op |-> op, token |-> token, status |-> status, user |-> user]

sessionFrame == <<user_quotas, user_admins, calls, genVars, user_tags, media,
                  files, thumbnails, queue, schema, limiter>>

InitSession ==
    /\ user_quotas = [k \in Keys |-> <<>>]
    /\ user_admins = {<<"a1", "u1">>}
    /\ now = 0
    /\ last = AuthCall("none", 0, 0, None)
    /\ calls = [k \in Keys |-> None]
    /\ pc = [p \in Procs |-> "idle"]
    /\ req = [p \in Procs |-> NoRequest]
    /\ video_jobs = [j \in JobIds |-> None]
    /\ operations = [j \in JobIds |-> "none"]
    /\ charges = [k \in Keys |-> 0]
    /\ peak = [k \in Keys |-> 0]
    /\ StoreIdle
    /\ TrackIdle

Login(email, password) ==
    /\ issued < MaxSessions
    /\ LET r == login(user_sessions, users, email, password, issued + 1, now)
       IN  /\ user_sessions' = r.sessions
           /\ issued' = IF IsNone(r.token) THEN issued ELSE issued + 1
           /\ last' = AuthCall("login", IF IsNone(r.token) THEN 0 ELSE Val(r.token),
                               r.status, None)
    /\ UNCHANGED <<now, users, sessionFrame>>

GetCurrentUser(token) ==
    LET r == get_current_user(user_sessions, users, token, now)
    IN  /\ user_sessions' = r.sessions
        /\ last' = AuthCall("get_current_user", token, r.status, r.user)
        /\ UNCHANGED <<now, users, issued, sessionFrame>>

Logout(token) ==
    LET r == logout(user_sessions, users, token, now)
    IN  /\ user_sessions' = r.sessions
        /\ last' = AuthCall("logout", token, r.status, r.user)
        /\ UNCHANGED <<now, users, issued, sessionFrame>>

Invalidate(token) ==
    /\ user_sessions' = invalidate(user_sessions, token)
    /\ last' = AuthCall("invalidate", token, 0, None)
    /\ UNCHANGED <<now, users, issued, sessionFrame>>

CleanupExpiredSessions ==
    /\ user_sessions' = cleanup_expired_sessions(user_sessions, now)
    /\ last' = AuthCall("cleanup_expired_sessions", 0, 0, None)
    /\ UNCHANGED <<now, users, issued, sessionFrame>>

\* PUT /users/{id} with is_active, as update_user applies it
SetActive(user_id, is_active) ==
    /\ users' = update_user(users, user_id, None, Some(is_active), None)
    /\ last' = AuthCall("update_user", 0, 0, None)
    /\ UNCHANGED <<now, user_sessions, issued, sessionFrame>>

\* A day passes
Tick ==
    /\ now < MaxNow
    /\ now' = now + 1
    /\ UNCHANGED <<last, users, user_sessions, issued, sessionFrame>>

NextSession ==
    \/ \E email \in LoginEmails, password \in LoginPasswords : Login(email, password)
    \/ \E token \in BearerTokens : GetCurrentUser(token)
    \/ \E token \in BearerTokens : Logout(token)
    \/ \E token \in BearerTokens : Invalidate(token)
    \/ CleanupExpiredSessions
    \/ \E user_id \in Deactivated, is_active \in BOOLEAN : SetActive(user_id, is_active)
    \/ Tick

SpecSession == InitSession /\ [][NextSession]_vars

\* get_user gives a user for the token
Authenticates(sessions, us, token, t) ==
    ~IsNone(session_get_user(sessions, us, token, t).user)

\* get_user gives a user only for a token with a row that has not expired
\* and whose user is active, and leaves no row of a token it found expired
GetUserChecks ==
    \A token \in BearerTokens :
        LET s == session_row(user_sessions, token)
            r == session_get_user(user_sessions, users, token, now)
        IN  /\ ~IsNone(r.user) =>
                /\ ~IsNone(s)
                /\ ~(Val(s).expires_at < now)
                /\ ~IsNone(users[Val(s).user_id])
                /\ Val(users[Val(s).user_id]).is_active
                /\ Val(r.user).username = Val(users[Val(s).user_id]).email
            /\ (~IsNone(s) /\ Val(s).expires_at < now) =>
                /\ IsNone(r.user)
                /\ IsNone(session_row(r.sessions, token))

\* An issued token that has no row gets none
RemovedStaysRemoved ==
    \A token \in BearerTokens :
        (token >= 1 /\ token <= issued /\ IsNone(session_row(user_sessions, token)))
            => IsNone(session_row(user_sessions', token))

\* C28: get_user(token) returns a user only if a session row of the token
\* exists, its expiry has not passed and its user is active; the lookup of an
\* expired token deletes its row; and a token whose row was removed, by that
\* eviction, by invalidate or by cleanup, never authenticates again.
C28_OnlyLiveSessionsAuthenticate ==
    []GetUserChecks /\ [][RemovedStaysRemoved]_vars

\* An issued token whose row was removed has just been refused, on a day
\* after the first, while another token authenticates
C28_Witness ==
    /\ last.op = "get_current_user"
    /\ last.status = 401
    /\ last.token >= 1 /\ last.token <= issued
    /\ IsNone(session_row(user_sessions, last.token))
    /\ now >= 1
    /\ \E token \in BearerTokens : Authenticates(user_sessions, users, token, now)

\* C29: a successful get_user(token) moves the expiry of the session to one
\* TTL after the time of use, besides recording the activity time, so that a
\* token used in every TTL period does not expire.
C29_UseExtendsLifetime ==
    \A token \in BearerTokens :
        LET r == session_get_user(user_sessions, users, token, now)
        IN  ~IsNone(r.user) =>
                /\ Val(session_row(r.sessions, token)).last_activity_at = now
                /\ Val(session_row(r.sessions, token)).expires_at = now + SessionTtl

\* C30: after a logout request made with a token, the token no longer
\* authenticates.
C30_LogoutInvalidates ==
    \A token \in BearerTokens :
        LET r == logout(user_sessions, users, token, now)
        IN  r.status = 200 => ~Authenticates(r.sessions, users, token, now)

----------------------------------------------------------------------------
(* Passwords: set-password, login and the admin of the environment *)

\* POST /set-password: 404 for an unknown email, 403 for a deactivated
\* account, 400 for a weak password; then update_user with the password, then
\* set_default_quotas, whose IntegrityError ends the request with 500 before
\* the session is created
set_password(sessions, us, uq, email, password, token, t) ==
    LET id == get_user_by_email(us, email)
        refused(status) ==
            [status |-> status, token |-> None, sessions |-> sessions,
             users |-> us, table |-> uq]
    IN  IF IsNone(id) THEN refused(404)
        ELSE IF ~Val(us[Val(id)]).is_active THEN refused(403)
        ELSE IF ~validate_password(password) THEN refused(400)
        ELSE LET updated == update_user(us, Val(id), Some(password), None,
                                        Some(FALSE))
                 quotas == set_default_quotas(uq, Val(id), t)
             IN  IF ~quotas.ok
                 THEN [status |-> 500, token |-> None, sessions |-> sessions,
                       users |-> updated, table |-> quotas.table]
                 ELSE [status |-> 200, token |-> Some(token),
                       sessions |-> create_session(sessions, token, Val(id), t),
                       users |-> updated, table |-> quotas.table]

\* ensure_env_admin_exists with the credentials the environment holds: the
\* users table it leaves
ensure_env_admin_exists(us, env) ==
    IF IsNone(env.username) \/ IsNone(env.password) THEN us
    ELSE LET existing_user == get_user_by_email(us, Val(env.username))
         IN  IF ~IsNone(existing_user)
             THEN LET user == Val(us[Val(existing_user)])
                  IN  IF ~IsNone(user.password_hash)
                      THEN IF ~verify_password(Val(env.password),
                                               Val(user.password_hash))
                           THEN update_user(us, Val(existing_user), env.password,
                                            Some(TRUE), Some(FALSE))
                           ELSE us
                      ELSE update_user(us, Val(existing_user), env.password,
                                       Some(TRUE), Some(FALSE))
             ELSE create_user(us, Val(env.username), env.password, TRUE, TRUE)

\* The credentials the environment of a start holds
EnvInputs ==
    { [username |-> None, password |-> Some("Secret22x")],
      [username |-> Some("u1@x"), password |-> Some("Passw0rd1")],
      [username |-> Some("U1@x"), password |-> Some("Secret22x")],
      [username |-> Some("u2@x"), password |-> Some("Secret22x")],
      [username |-> Some("root@x"), password |-> Some("Secret22x")] }

\* The emails set-password and login are tried with
PasswordEmails == {"u1@x", "u2@x", "nobody@x"}

authFrame == <<user_admins, now, calls, genVars, user_tags, media, files,
               thumbnails, queue, schema, limiter>>

\* u2 was invited and has set no password yet
InitAuth ==
    /\ user_quotas = [k \in Keys |-> <<>>]
    /\ user_admins = {<<"a1", "u1">>}
    /\ now = 0
    /\ last = AuthCall("none", 0, 0, None)
    /\ calls = [k \in Keys |-> None]
    /\ pc = [p \in Procs |-> "idle"]
    /\ req = [p \in Procs |-> NoRequest]
    /\ video_jobs = [j \in JobIds |-> None]
    /\ operations = [j \in JobIds |-> "none"]
    /\ charges = [k \in Keys |-> 0]
    /\ peak = [k \in Keys |-> 0]
    /\ users = [id \in UserIds |->
                   CASE id = "a2" -> None
                     [] id = "a1" -> Some(NewUserRow("a1@x", Some(InitialPassword),
                                                     TRUE, TRUE))
                     [] id = "u1" -> Some(NewUserRow("u1@x", Some(InitialPassword),
                                                     FALSE, TRUE))
                     [] OTHER -> Some(NewUserRow("u2@x", None, FALSE, TRUE))]
    /\ user_tags = [id \in UserIds |-> {}]
    /\ media = <<>>
    /\ files = {}
    /\ thumbnails = {}
    /\ TrackIdle

SetPassword(email, password) ==
    /\ issued < MaxSessions
    /\ LET r == set_password(user_sessions, users, user_quotas, email, password,
                             issued + 1, now)
       IN  /\ users' = r.users
           /\ user_quotas' = r.table
           /\ user_sessions' = r.sessions
           /\ issued' = IF IsNone(r.token) THEN issued ELSE issued + 1
           /\ last' = AuthCall("set_password",
                               IF IsNone(r.token) THEN 0 ELSE Val(r.token),
                               r.status, get_user_by_email(users, email))
    /\ UNCHANGED authFrame

LoginWithPassword(email, password) ==
    /\ issued < MaxSessions
    /\ LET r == login(user_sessions, users, email, password, issued + 1, now)
       IN  /\ user_sessions' = r.sessions
           /\ issued' = IF IsNone(r.token) THEN issued ELSE issued + 1
           /\ last' = AuthCall("login", IF IsNone(r.token) THEN 0 ELSE Val(r.token),
                               r.status, get_user_by_email(users, email))
    /\ UNCHANGED <<users, user_quotas, authFrame>>

\* POST /api/admin/users/{user_id}/reset-password by the admin of the user
RequirePasswordReset(admin_id, user_id) ==
    /\ users' = reset_password(DB, admin_id, user_id).db.users
    /\ last' = AuthCall("reset_password", 0,
                        reset_password(DB, admin_id, user_id).status, Some(user_id))
    /\ UNCHANGED <<user_quotas, user_sessions, issued, authFrame>>

Deactivate(user_id, is_active) ==
    /\ users' = update_user(users, user_id, None, Some(is_active), None)
    /\ last' = AuthCall("update_user", 0, 0, Some(user_id))
    /\ UNCHANGED <<user_quotas, user_sessions, issued, authFrame>>

\* startup_event: ensure_env_admin_exists
Startup(env) ==
    /\ (\A id \in UserIds : ~IsNone(users[id])) =>
           (IF IsNone(env.username) THEN TRUE
            ELSE ~IsNone(get_user_by_email(users, Val(env.username))))
    /\ users' = ensure_env_admin_exists(users, env)
    /\ last' = AuthCall("ensure_env_admin_exists", 0, 0,
                        IF IsNone(env.username) THEN None
                        ELSE get_user_by_email(users', Val(env.username)))
    /\ UNCHANGED <<user_quotas, user_sessions, issued, authFrame>>

NextAuth ==
    \/ \E email \in PasswordEmails, password \in Passwords :
           SetPassword(email, password)
    \/ \E email \in PasswordEmails, password \in LoginPasswords :
           LoginWithPassword(email, password)
    \/ \E user_id \in Users : RequirePasswordReset("a1", user_id)
    \/ \E user_id \in Deactivated, is_active \in BOOLEAN :
           Deactivate(user_id, is_active)
    \/ \E env \in EnvInputs : Startup(env)

SpecAuth == InitAuth /\ [][NextAuth]_vars

\* C31: set-password, for an existing active user, changes the password and
\* issues a session token only if the user has no password or a password
\* reset pending; for a user with a password and no reset pending it changes
\* nothing and issues no token.
C31_SetPasswordOnlyWhenDue ==
    \A email \in PasswordEmails : \A password \in Passwords :
        LET id == get_user_by_email(users, email)
            r == set_password(user_sessions, users, user_quotas, email,
                              password, issued + 1, now)
        IN  (~IsNone(id) /\ Val(users[Val(id)]).is_active) =>
                LET user == Val(users[Val(id)])
                    due == IsNone(user.password_hash) \/ user.require_password_reset
                IN  /\ (r.users # users \/ ~IsNone(r.token)) => due
                    /\ ~due => /\ r.users = users
                               /\ r.sessions = user_sessions
                               /\ IsNone(r.token)

\* C33: after ensure_env_admin_exists has run with credentials configured,
\* the user with the configured email exists, is an admin, is active, has the
\* configured password and requires no password reset, whether or not the
\* user existed before.
C33_EnvAdminEnsured ==
    \A env \in EnvInputs :
        (/\ ~IsNone(env.username) /\ ~IsNone(env.password)
         /\ (\E id \in UserIds : IsNone(users[id])))
            => LET after == ensure_env_admin_exists(users, env)
                   id == get_user_by_email(after, Val(env.username))
               IN  /\ ~IsNone(id)
                   /\ Val(after[Val(id)]).is_admin
                   /\ Val(after[Val(id)]).is_active
                   /\ ~IsNone(Val(after[Val(id)]).password_hash)
                   /\ verify_password(Val(env.password),
                                      Val(Val(after[Val(id)]).password_hash))
                   /\ ~Val(after[Val(id)]).require_password_reset

EmailInputs == {"u1@x", "U1@x", "u2@x", " U2@X ", "a1@x"}

\* No two rows of the users table have the same email
NoDuplicateEmails(us) ==
    \A a, b \in DOMAIN us :
        (a # b /\ ~IsNone(us[a]) /\ ~IsNone(us[b]))
            => Val(us[a]).email # Val(us[b]).email

\* C32: no two user rows have emails that are equal ignoring case and
\* surrounding whitespace, whatever users are created, and a lookup by email
\* finds the same user whatever the case of the query.
C32_EmailsUnique ==
    /\ NoDuplicateEmails(users)
    /\ \A id \in UserIds : ~IsNone(users[id]) =>
           Val(users[id]).email = Normalise(Val(users[id]).email)
    /\ \A email \in EmailInputs :
           /\ (\E id \in UserIds : IsNone(users[id])) =>
                  NoDuplicateEmails(create_user(users, email, None, FALSE, TRUE))
           /\ get_user_by_email(users, email)
                  = get_user_by_email(users, Normalise(email))
           /\ \A id \in UserIds :
                  (~IsNone(users[id]) /\ Val(users[id]).email = Normalise(email))
                      => get_user_by_email(users, email) = Some(id)

\* A bulk create has left the user u2@x, whom a query in another case finds,
\* and the email of u1 in another case counts as taken
C32_Witness ==
    /\ last.op = "bulk_create_users"
    /\ ~IsNone(users["u2"])
    /\ get_user_by_email(users, " U2@X ") = Some("u2")
    /\ email_taken(users, "U1@x")

----------------------------------------------------------------------------
(* initialize_database *)

MaxRestarts == 1   \* the process is not restarted more than MaxRestarts times

\* The loop of initialize_database over MIGRATIONS with every version run
\* again
pending_migrations_all(applied_versions) == MIGRATIONS

\* The versions the loop of initialize_database runs: those of MIGRATIONS, in
\* its order, that are not in applied_versions
pending_migrations(applied_versions) ==
    SelectSeq(MIGRATIONS, LAMBDA version : version \notin applied_versions)

\* The versions an existing database file has on record at the first start
RecordedAtStart == {0, 2, Len(MIGRATIONS)}

IdleThread == [pc |-> "idle", applied_versions |-> {}, todo |-> <<>>, inserted |-> {}]

schemaFrame == <<user_quotas, user_admins, now, last, calls, genVars, storeVars,
                 queue, user_sessions, issued, limiter>>

InitSchema ==
    /\ user_quotas = [k \in Keys |-> <<>>]
    /\ user_admins = {<<"a1", "u1">>}
    /\ now = 0
    /\ last = Call("none", "u1", "video", 0, TRUE)
    /\ calls = [k \in Keys |-> None]
    /\ pc = [p \in Procs |-> "idle"]
    /\ req = [p \in Procs |-> NoRequest]
    /\ video_jobs = [j \in JobIds |-> None]
    /\ operations = [j \in JobIds |-> "none"]
    /\ charges = [k \in Keys |-> 0]
    /\ peak = [k \in Keys |-> 0]
    /\ StoreIdle
    /\ queue = <<>>
    /\ user_sessions = <<>>
    /\ issued = 0
    /\ limiter = LimiterIdle
    /\ \E n \in RecordedAtStart :
           schema = [schema_migrations |-> {MIGRATIONS[i] : i \in 1..n},
                     ran |-> SubSeq(MIGRATIONS, 1, n),
                     _db_initialized |-> FALSE,
                     _db_lock |-> None,
                     starts |-> 0,
                     thread |-> [t \in Threads |-> IdleThread]]

\* initialize_database up to the lock: it returns when _db_initialized is set
CallInitialize(t) ==
    /\ schema.thread[t].pc = "idle"
    /\ schema' = IF schema._db_initialized THEN schema
                 ELSE [schema EXCEPT !.thread[t].pc = "lock"]
    /\ UNCHANGED schemaFrame

\* with _db_lock
AcquireLock(t) ==
    /\ schema.thread[t].pc = "lock"
    /\ IsNone(schema._db_lock)
    /\ schema' = [schema EXCEPT !._db_lock = Some(t), !.thread[t].pc = "locked"]
    /\ UNCHANGED schemaFrame

\* The second look at _db_initialized, and then the SELECT of the versions
\* on record
ReadApplied(t) ==
    /\ schema.thread[t].pc = "locked"
    /\ schema' =
          IF schema._db_initialized
          THEN [schema EXCEPT !._db_lock = None, !.thread[t] = IdleThread]
          ELSE [schema EXCEPT
                   !.thread[t].applied_versions = schema.schema_migrations,
                   !.thread[t].todo = pending_migrations(schema.schema_migrations),
                   !.thread[t].pc = "migrate"]
    /\ UNCHANGED schemaFrame

\* One turn of the loop: the statements of a version and the INSERT of the
\* version, which raises when the version is on record or was inserted
RunMigration(t) ==
    /\ schema.thread[t].pc = "migrate"
    /\ schema.thread[t].todo # <<>>
    /\ LET version == Head(schema.thread[t].todo)
       IN  schema' =
              IF version \in schema.schema_migrations \cup schema.thread[t].inserted
              THEN [schema EXCEPT !.ran = Append(@, version),
                                  !._db_lock = None,
                                  !.thread[t] = IdleThread]
              ELSE [schema EXCEPT !.ran = Append(@, version),
                                  !.thread[t].inserted = @ \cup {version},
                                  !.thread[t].todo = Tail(@)]
    /\ UNCHANGED schemaFrame

\* conn.commit()
CommitMigrations(t) ==
    /\ schema.thread[t].pc = "migrate"
    /\ schema.thread[t].todo = <<>>
    /\ schema' = [schema EXCEPT
                     !.schema_migrations = @ \cup schema.thread[t].inserted,
                     !.thread[t].pc = "commit"]
    /\ UNCHANGED schemaFrame

\* _db_initialized = True
SetInitialized(t) ==
    /\ schema.thread[t].pc = "commit"
    /\ schema' = [schema EXCEPT !._db_initialized = TRUE,
                                !.thread[t].pc = "release"]
    /\ UNCHANGED schemaFrame

\* The end of with _db_lock
ReleaseLock(t) ==
    /\ schema.thread[t].pc = "release"
    /\ schema' = [schema EXCEPT !._db_lock = None, !.thread[t] = IdleThread]
    /\ UNCHANGED schemaFrame

\* The process ends and a new one starts on the database file
Restart ==
    /\ schema.starts < MaxRestarts
    /\ \A t \in Threads : schema.thread[t].pc = "idle"
    /\ schema' = [schema EXCEPT !._db_initialized = FALSE, !.starts = @ + 1]
    /\ UNCHANGED schemaFrame

NextSchema ==
    \/ \E t \in Threads : CallInitialize(t)
    \/ \E t \in Threads : AcquireLock(t)
    \/ \E t \in Threads : ReadApplied(t)
    \/ \E t \in Threads : RunMigration(t)
    \/ \E t \in Threads : CommitMigrations(t)
    \/ \E t \in Threads : SetInitialized(t)
    \/ \E t \in Threads : ReleaseLock(t)
    \/ Restart

SpecSchema == InitSchema /\ [][NextSchema]_vars

\* Every version ran at most once, in ascending order, every version on
\* record ran, and an initialised process has a database on which every
\* version ran and is on record
MigrationsRanOnce ==
    /\ \A i, j \in 1..Len(schema.ran) : i < j => schema.ran[i] < schema.ran[j]
    /\ \A version \in schema.schema_migrations :
           \E i \in 1..Len(schema.ran) : schema.ran[i] = version
    /\ schema._db_initialized =>
           /\ schema.ran = MIGRATIONS
           /\ schema.schema_migrations = {MIGRATIONS[i] : i \in 1..Len(MIGRATIONS)}

\* A migration that runs is one version not on record
RunsUnrecordedOnly ==
    schema'.ran # schema.ran =>
        \E version \in {MIGRATIONS[i] : i \in 1..Len(MIGRATIONS)} :
            /\ schema'.ran = Append(schema.ran, version)
            /\ version \notin schema.schema_migrations

\* C34: across any number of initialize_database calls, from several threads
\* and over restarts on an existing database, every migration version is
\* applied exactly once, in ascending order of version, and a version on
\* record is never applied again.
C34_MigrationsAppliedOnce ==
    []MigrationsRanOnce /\ [][RunsUnrecordedOnly]_vars

\* After a restart the process is initialised again on the migrated
\* database, while the other thread, which saw _db_initialized unset, is
\* about to take the lock
C34_Witness ==
    /\ schema.starts >= 1
    /\ schema._db_initialized
    /\ schema.ran = MIGRATIONS
    /\ \E t \in Threads : schema.thread[t].pc = "lock"

----------------------------------------------------------------------------
(* check_quota under a running clock. The clock counts days, day 0 a        *)
(* Monday: quota_reset_at is always a midnight, so the check's              *)
(* utcnow() >= reset_time holds on day t exactly for reset days <= t.       *)

MaxDay == 8        \* the clock is not advanced past day MaxDay

ResetUser == "u1"
\* The generation type followed: increment_quota creates its row as a daily
\* quota, the admin turns it into any other
ResetCategories == {"video"}

\* The settings an admin gives a quota: every quota_type with a limit
ResetSettings ==
    {[type |-> Some(ty), limit |-> Some(n)] : ty \in ValidQuotaTypes, n \in 0..MaxLimit}

\* quota_used of the row get_quota finds, 0 without a row
UsedOf(uq, k) ==
    LET quota == get_quota(uq, k[1], k[2])
    IN  IF IsNone(quota) THEN 0 ELSE Val(quota).quota_used

resetFrame == <<user_admins, calls, pc, req, video_jobs, operations, peak,
                storeVars, trackVars>>

InitReset ==
    /\ user_quotas = [k \in Keys |-> <<>>]
    /\ user_admins = {<<"a1", ResetUser>>}
    /\ now = 0
    /\ last = Call("none", ResetUser, "video", 0, TRUE)
    /\ calls = [k \in Keys |-> None]
    /\ pc = [p \in Procs |-> "idle"]
    /\ req = [p \in Procs |-> NoRequest]
    /\ video_jobs = [j \in JobIds |-> None]
    /\ operations = [j \in JobIds |-> "none"]
    /\ charges = [k \in Keys |-> 0]
    /\ peak = [k \in Keys |-> 0]
    /\ StoreIdle
    /\ TrackIdle

\* A day passes
NextDay ==
    /\ now < MaxDay
    /\ now' = now + 1
    /\ last' = Call("none", ResetUser, "video", 0, TRUE)
    /\ UNCHANGED <<user_quotas, charges, resetFrame>>

\* check_quota(user_id, generation_type) of a generation endpoint
CheckOnDay(c) ==
    LET r == check_quota(user_quotas, ResetUser, c, now)
    IN  /\ user_quotas' = r.table
        /\ last' = Call("check_quota", ResetUser, c, 0, r.allowed)
        /\ UNCHANGED <<now, charges, resetFrame>>

\* increment_quota(user_id, generation_type); charges counts the calls that
\* raised quota_used
IncrementOnDay(c) ==
    LET k == <<ResetUser, c>>
        r == increment_quota(user_quotas, ResetUser, c, now)
    IN  /\ UsedOf(user_quotas, k) < MaxUsed
        /\ charges[k] < MaxCharged
        /\ user_quotas' = r.table
        /\ charges' = [charges EXCEPT ![k] =
                          @ + UsedOf(r.table, k) - UsedOf(user_quotas, k)]
        /\ last' = Call("increment_quota", ResetUser, c, IF r.ok THEN 0 ELSE 500, TRUE)
        /\ UNCHANGED <<now, resetFrame>>

\* PUT /api/admin/quotas/{user_id} by the user's admin
UpdateOnDay(c, settings) ==
    LET r == update_user_quotas(user_quotas, user_admins, "a1", ResetUser, c,
                                settings, now)
    IN  /\ user_quotas' = r.table
        /\ last' = Call("update_user_quotas", ResetUser, c, r.status, TRUE)
        /\ UNCHANGED <<now, charges, resetFrame>>

NextReset ==
    \/ NextDay
    \/ \E c \in ResetCategories : CheckOnDay(c)
    \/ \E c \in ResetCategories : IncrementOnDay(c)
    \/ \E c \in ResetCategories, settings \in ResetSettings : UpdateOnDay(c, settings)

SpecReset == InitReset /\ [][NextReset]_vars

\* A row of type limited or unlimited has no reset time, a row of type daily
\* or weekly has one
ResetTimeIffWindowed ==
    \A k \in Keys :
        HasQuota(k) =>
            (IsNone(QuotaOf(k).quota_reset_at)
                 <=> QuotaOf(k).quota_type \in {"limited", "unlimited"})

\* What a check_quota step does to the row it reads
CheckResetsWhenDue ==
    \A k \in Keys :
        (/\ last'.op = "check_quota"
         /\ <<last'.user, last'.generation_type>> = k
         /\ HasQuota(k))
            => LET q == QuotaOf(k)
                   q2 == Val(get_quota(user_quotas', k[1], k[2]))
               IN  IF q.quota_type \in {"limited", "unlimited"}
                   THEN q2.quota_used = q.quota_used
                   ELSE IF IsNone(q.quota_reset_at) THEN TRUE
                   ELSE IF now >= Val(q.quota_reset_at)
                   THEN /\ q2.quota_used = 0
                        /\ ~IsNone(q2.quota_reset_at)
                        /\ Val(q2.quota_reset_at) > now
                        /\ IF IsNone(q2.quota_limit) THEN last'.allowed
                           ELSE Val(q2.quota_limit) > 0 => last'.allowed
                   ELSE q2 = q

\* C37: the first check_quota on a daily or weekly quota at or after its
\* quota_reset_at sets quota_used to 0 and moves quota_reset_at strictly into
\* the future before it decides, so it allows the request when the limit is
\* above 0 (a check before the reset time changes nothing); a limited or
\* unlimited quota has no reset time and check_quota never changes its
\* quota_used.
C37_ResetOnRead ==
    []ResetTimeIffWindowed /\ [][CheckResetsWhenDue]_vars

\* A check_quota has just reset a weekly quota that had been charged: its
\* quota_used is 0 again, the next reset is a later Monday, and the request
\* was allowed
C37_Witness ==
    \E c \in ResetCategories :
        /\ last.op = "check_quota" /\ last.generation_type = c /\ last.allowed
        /\ HasQuota(<<ResetUser, c>>)
        /\ QuotaOf(<<ResetUser, c>>).quota_type = "weekly"
        /\ QuotaOf(<<ResetUser, c>>).quota_used = 0
        /\ charges[<<ResetUser, c>>] >= 1
        /\ QuotaOf(<<ResetUser, c>>).quota_reset_at = Some(14)
        /\ now >= 7

----------------------------------------------------------------------------
(* utils/rate_limiter.py. The clock of this part counts in a unit of its    *)
(* own, and a window is a number of these units. check_rate_limit has no    *)
(* await inside, so a call runs to its end before the next one starts.      *)

\* RATE_LIMITS is 10 requests per 60 s for "image" and 5 per 3600 s for
\* "video" and "music"; the limiter is followed with smaller limits and
\* windows, which keep image the larger limit and the shorter window
ImageLimit == 2
ImageWindow == 1
VideoLimit == 1
VideoWindow == 2
MaxClock == 4      \* the clock is not advanced past MaxClock

RATE_LIMITS ==
    [image |-> [limit |-> ImageLimit, window |-> ImageWindow],
     video |-> [limit |-> VideoLimit, window |-> VideoWindow],
     music |-> [limit |-> VideoLimit, window |-> VideoWindow]]

\* [timestamp for timestamp in timestamps if timestamp > cutoff]
newer_than(timestamps, cutoff) ==
    SelectSeq(timestamps, LAMBDA timestamp : timestamp > cutoff)

\* check_rate_limit that rejects only above the limit (> for >=)
check_rate_limit_over(limits, user_id, resource_type, t) ==
    IF resource_type \notin DOMAIN RATE_LIMITS
    THEN [status |-> 200, limits |-> limits]
    ELSE LET config == RATE_LIMITS[resource_type]
             key == <<user_id, resource_type>>
             kept == newer_than(limits[key], t - config.window)
         IN  IF Len(kept) > config.limit
             THEN [status |-> 429, limits |-> [limits EXCEPT ![key] = kept]]
             ELSE [status |-> 200, limits |-> [limits EXCEPT ![key] = Append(kept, t)]]

\* check_rate_limit(user_id, resource_type) at time t: [status, limits];
\* status 429 is the HTTPException, 200 the plain return
check_rate_limit(limits, user_id, resource_type, t) ==
    IF resource_type \notin DOMAIN RATE_LIMITS
    THEN [status |-> 200, limits |-> limits]
    ELSE LET config == RATE_LIMITS[resource_type]
             key == <<user_id, resource_type>>
             kept == newer_than(limits[key], t - config.window)
         IN  IF Len(kept) >= config.limit
             THEN [status |-> 429, limits |-> [limits EXCEPT ![key] = kept]]
             ELSE [status |-> 200, limits |-> [limits EXCEPT ![key] = Append(kept, t)]]

rateFrame == <<user_quotas, user_admins, calls, genVars, storeVars, queue,
               user_sessions, issued, schema>>

InitRate ==
    /\ user_quotas = [k \in Keys |-> <<>>]
    /\ user_admins = {<<"a1", "u1">>}
    /\ now = 0
    /\ last = Call("none", "u1", "video", 0, TRUE)
    /\ calls = [k \in Keys |-> None]
    /\ pc = [p \in Procs |-> "idle"]
    /\ req = [p \in Procs |-> NoRequest]
    /\ video_jobs = [j \in JobIds |-> None]
    /\ operations = [j \in JobIds |-> "none"]
    /\ charges = [k \in Keys |-> 0]
    /\ peak = [k \in Keys |-> 0]
    /\ StoreIdle
    /\ TrackIdle

\* datetime.now() moves on by one unit
ClockTick ==
    /\ now < MaxClock
    /\ now' = now + 1
    /\ last' = Call("none", "u1", "video", 0, TRUE)
    /\ UNCHANGED <<limiter, rateFrame>>

\* await check_rate_limit(user_id, resource_type) of a generation endpoint
CheckRateLimit(key) ==
    LET r == check_rate_limit(limiter._rate_limits, key[1], key[2], now)
    IN  /\ limiter' = [_rate_limits |-> r.limits,
                       accepted |->
                           IF r.status = 200 /\ key[2] \in DOMAIN RATE_LIMITS
                           THEN [limiter.accepted EXCEPT ![key] = Append(@, now)]
                           ELSE limiter.accepted]
        /\ last' = Call("check_rate_limit", key[1], key[2], r.status, r.status = 200)
        /\ UNCHANGED <<now, rateFrame>>

NextRate ==
    \/ ClockTick
    \/ \E key \in RateKeys : CheckRateLimit(key)

SpecRate == InitRate /\ [][NextRate]_vars

\* The requests of a key let pass in the window of the key's length that
\* ends at time t: the times after t - window, up to t
AcceptedInWindow(key, t) ==
    {i \in 1..Len(limiter.accepted[key]) :
        /\ limiter.accepted[key][i] > t - RATE_LIMITS[key[2]].window
        /\ limiter.accepted[key][i] <= t}

\* No window of a configured key holds more accepted requests than its limit
WindowsWithinLimit ==
    \A key \in RateKeys :
        key[2] \in DOMAIN RATE_LIMITS =>
            \A t \in 0..MaxClock :
                Cardinality(AcceptedInWindow(key, t)) <= RATE_LIMITS[key[2]].limit

\* What a check_rate_limit step returns and records
RejectedNotRecorded ==
    last'.op = "check_rate_limit" =>
        LET key == <<last'.user, last'.generation_type>>
            before == limiter._rate_limits[key]
            after == limiter'._rate_limits[key]
        IN  /\ last'.status \in {200, 429}
            /\ last'.status = 429 =>
                   /\ after = newer_than(before, now - RATE_LIMITS[key[2]].window)
                   /\ Len(after) >= RATE_LIMITS[key[2]].limit
                   /\ \A other \in RateKeys \ {key} :
                          limiter'._rate_limits[other] = limiter._rate_limits[other]
            /\ key[2] \notin DOMAIN RATE_LIMITS =>
                   last'.status = 200 /\ limiter' = limiter

\* C38: for a user and resource type with a configured rate limit,
\* check_rate_limit lets at most limit requests pass in any window of window
\* time units (the times after t - window up to t, for every t); a rejected
\* request gets status 429 and adds no timestamp to _rate_limits; a resource
\* type without a configuration is never rejected and never recorded.
C38_RateLimited ==
    []WindowsWithinLimit /\ [][RejectedNotRecorded]_vars

\* A video request was just rejected with its window full, after an earlier
\* window's request had aged out and a later one was let pass; and the
\* unconfigured speech requests of the same user left no timestamp
C38_Witness ==
    /\ last.op = "check_rate_limit" /\ last.generation_type = "video"
    /\ last.status = 429
    /\ Len(limiter.accepted[<<"u1", "video">>]) > VideoLimit
    /\ Len(limiter._rate_limits[<<"u1", "video">>]) = VideoLimit
    /\ Len(limiter.accepted[<<"anonymous", "image">>]) >= ImageLimit
    /\ limiter._rate_limits[<<"u1", "speech">>] = <<>>

====
